---------------------------- MODULE Spec2Model ----------------------------
(***************************************************************************)
(* VowMUD: the per-connection authorization state machine                  *)
(* (core/authorization.py), the connection handler that drives it          *)
(* (core/server.py), the user registry (core/managers/user_manager.py)     *)
(* and the users table (core/database.py, db/init_db.py).                  *)
(*                                                                         *)
(* Text is a sequence of one-character strings.  The tokens "NL", "SP",    *)
(* "TAB", "ESC", "BSL" and "xFF" stand for the newline, the blank, the     *)
(* tab, the escape control character (0x1b), the backslash and a byte      *)
(* that is not valid UTF-8.  A read of the empty sequence is the empty     *)
(* read of a closed transport.                                             *)
(***************************************************************************)
EXTENDS Integers, Sequences, FiniteSets, TLC

VARIABLES
    pc,                   \* position of handle_connection for each connection
    machine,              \* the AuthStateMachine object of each connection
    state,                \* AuthStateMachine.run: new_state, whose handler runs next
    checked,              \* _state_validate is suspended after the is_logged_in check
    user_pkg,             \* the UserAuthPackage run() threads through the handlers
    user,                 \* the User object of the connection
    users,                \* UserManager.users (keyed by the connection's socket)
    db,                   \* rows of the users table, in insertion order
    sock,                 \* the StreamWriter: the last two blocks written, closed flag
    input_read,           \* what the handler that ran last got from reader.read(100)
    lookups,              \* what the handler that ran last asked the users table
                          \* (query_table) and the UserManager (is_logged_in)
    proc                  \* the command, chat and movement processors: position
                          \* of run(), shutdown flag, queue and its unfinished
                          \* task count, the item at hand

vars == <<pc, machine, state, checked, user_pkg, user, users, db, sock, input_read,
          lookups, proc>>

----------------------------------------------------------------------------
(* Bounds of the model *)

\* rows the users table may reach before peers stop choosing 'c'
MaxRows == 3

\* entries the end_states list of a machine built call by call may reach
MaxEndStates == 2

\* commands the processors hold at a time, and calls of process() in a
\* behaviour
MaxItems == 1
MaxCalls == 2

\* the connections that may be opened
Conns == {"c1", "c2"}

----------------------------------------------------------------------------
(* Program constants *)

MaxRetryAttempts == 4
MinAccountNameLen == 4
MaxAccountNameLen == 20
MinPasswordLen == 10
MaxPasswordLen == 30

----------------------------------------------------------------------------
(* Text *)

Rep(ch, n) == [i \in 1..n |-> ch]

Whitespace == {"SP", "NL", "TAB"}
Digits == {"0", "1", "2", "3", "4", "5", "6", "7", "8", "9"}

\* bytes.decode(): UnicodeDecodeError on a byte sequence that is not UTF-8
Decodable(bytes) == \A i \in 1..Len(bytes) : bytes[i] # "xFF"

RECURSIVE rstrip(_)
\* str.rstrip(): drop the trailing whitespace
rstrip(s) ==
    IF s = <<>> THEN <<>>
    ELSE IF s[Len(s)] \in Whitespace THEN rstrip(SubSeq(s, 1, Len(s) - 1))
    ELSE s

\* re.search(r'^[0-9]|\s', s)
StartsWithDigitOrHasSpace(s) ==
    \/ (s # <<>> /\ s[1] \in Digits)
    \/ \E i \in 1..Len(s) : s[i] \in Whitespace

\* re.search(r'\s', s)
HasWhitespace(s) == \E i \in 1..Len(s) : s[i] \in Whitespace

\* re.search(r'\\033\[.*m', s): a backslash, the digits 033, '[', any run
\* of characters without a newline, 'm'
AnsiPattern(s) ==
    \E i \in 1..Len(s) : \E j \in 1..Len(s) :
        /\ i + 4 < j
        /\ s[i] = "BSL" /\ s[i + 1] = "0" /\ s[i + 2] = "3" /\ s[i + 3] = "3"
        /\ s[i + 4] = "["
        /\ s[j] = "m"
        /\ \A k \in (i + 5)..(j - 1) : s[k] # "NL"

----------------------------------------------------------------------------
(* bcrypt *)

\* bcrypt.gensalt(): the salts a new account may draw
Salts == {"s2", "s3"}

\* bcrypt.hashpw(password, salt)
hashpw(password, salt) == [salt |-> salt, digest |-> <<salt, password>>]

\* bcrypt.checkpw(password, hashed): re-hash with the salt held in hashed
checkpw(password, hashed) == hashpw(password, hashed.salt) = hashed


----------------------------------------------------------------------------
(* The state machine: AuthStateMachine *)

\* AuthStateMachine.__init__
NewMachine == [handlers |-> <<>>, end_states |-> <<>>, start_state |-> "None"]

\* AuthStateMachine.add_state
add_state(m, name, handler, end_state) ==
    [m EXCEPT !.handlers = (name :> handler) @@ m.handlers,
              !.end_states = IF end_state THEN Append(m.end_states, name)
                             ELSE m.end_states]

\* AuthStateMachine.set_start
set_start(m, name) == [m EXCEPT !.start_state = name]

\* SetupCalls with 'real_name_processed' bound to the real-name prompt
SetupCalls_RealNameAgain ==
    << <<"auth_initial_state", "_state_login_title", FALSE>>,
       <<"displayed_login_title", "_state_login_prompt", FALSE>>,
       <<"prompted_for_login", "_state_login_process", FALSE>>,
       <<"login_processed", "_state_password_prompt", FALSE>>,
       <<"prompted_for_password", "_state_password_process", FALSE>>,
       <<"password_processed", "_state_validate", FALSE>>,
       <<"validated", "_state_authorized", FALSE>>,
       <<"authorized", "None", TRUE>>,
       <<"create_initial_state", "_state_new_account_prompt", FALSE>>,
       <<"prompted_for_new_account_name", "_state_new_account_process", FALSE>>,
       <<"new_account_name_processed", "_state_real_name_prompt", FALSE>>,
       <<"prompted_for_real_name", "_state_real_name_process", FALSE>>,
       <<"real_name_processed", "_state_real_name_prompt", FALSE>>,
       <<"prompted_for_new_password", "_state_new_password_process", FALSE>>,
       <<"new_password_processed", "_state_reenter_new_password_prompt", FALSE>>,
       <<"prompted_for_reenter_new_password", "_state_reenter_new_password_process", FALSE>>,
       <<"reenter_new_password_processed", "_state_create_new_account", FALSE>>,
       <<"new_account_created", "_state_inform_of_login", FALSE>>,
       <<"error_state", "_state_error", TRUE>> >>

\* the add_state calls of setup(), in order
SetupCalls ==
    << <<"auth_initial_state", "_state_login_title", FALSE>>,
       <<"displayed_login_title", "_state_login_prompt", FALSE>>,
       <<"prompted_for_login", "_state_login_process", FALSE>>,
       <<"login_processed", "_state_password_prompt", FALSE>>,
       <<"prompted_for_password", "_state_password_process", FALSE>>,
       <<"password_processed", "_state_validate", FALSE>>,
       <<"validated", "_state_authorized", FALSE>>,
       <<"authorized", "None", TRUE>>,
       <<"create_initial_state", "_state_new_account_prompt", FALSE>>,
       <<"prompted_for_new_account_name", "_state_new_account_process", FALSE>>,
       <<"new_account_name_processed", "_state_real_name_prompt", FALSE>>,
       <<"prompted_for_real_name", "_state_real_name_process", FALSE>>,
       <<"real_name_processed", "_state_new_password_prompt", FALSE>>,
       <<"prompted_for_new_password", "_state_new_password_process", FALSE>>,
       <<"new_password_processed", "_state_reenter_new_password_prompt", FALSE>>,
       <<"prompted_for_reenter_new_password", "_state_reenter_new_password_process", FALSE>>,
       <<"reenter_new_password_processed", "_state_create_new_account", FALSE>>,
       <<"new_account_created", "_state_inform_of_login", FALSE>>,
       <<"error_state", "_state_error", TRUE>> >>

RECURSIVE AddStates(_, _)
AddStates(m, calls) ==
    IF calls = <<>> THEN m
    ELSE AddStates(add_state(m, calls[1][1], calls[1][2], calls[1][3]), Tail(calls))

\* AuthStateMachine.setup
setup(m) == set_start(AddStates(m, SetupCalls), "auth_initial_state")

\* handle_connection: authorization_process = AuthStateMachine(); .setup()
Machine == setup(NewMachine)

EndStates == {Machine.end_states[i] : i \in 1..Len(Machine.end_states)}

\* run(): new_state in self.end_states
InEndStates(m, new_state) ==
    \E i \in 1..Len(m.end_states) : m.end_states[i] = new_state

----------------------------------------------------------------------------
(* Data *)

\* input_tracker = None
NoTracker == [cls |-> "None"]

\* SimpleAuth()
SimpleAuth == [cls |-> "SimpleAuth", account_name |-> <<>>, password |-> <<>>]

\* AccountCreation()
AccountCreation ==
    [cls |-> "AccountCreation", account_name |-> <<>>, password |-> <<>>,
     real_name |-> <<>>]

\* UserAuthPackage(user, reader); also stands for the package once run()
\* has returned or raised and nothing refers to it any more
UserAuthPackage == [input_tracker |-> NoTracker, user_login_attempts |-> 0]

\* no read was made by the handler that ran last
NoInput == [by |-> "None", data |-> <<>>]

\* create_user that makes the user authorized from the start
create_user_Authorized == [account_name |-> <<>>, authorized |-> TRUE]

\* create_user(socket)
create_user == [account_name |-> <<>>, authorized |-> FALSE]

\* is_logged_in that finds nobody
is_logged_in_Nobody(account_name) == FALSE

\* UserManager.is_logged_in
is_logged_in(account_name) ==
    \E k \in users : user[k].account_name = account_name

\* query_table('SELECT ... FROM users WHERE account_name=?', (name,))
query_table(name) == SelectSeq(db, LAMBDA row : row.account_name = name)

\* insert_user_account with INSERT OR REPLACE on the account name
insert_user_account_OrReplace(account_name, real_name, password) ==
    Append(SelectSeq(db, LAMBDA row : row.account_name # account_name),
           [account_name |-> account_name, real_name |-> real_name,
            password |-> password])

\* insert_user_account that executes the INSERT twice
insert_user_account_Twice(account_name, real_name, password) ==
    db \o << [account_name |-> account_name, real_name |-> real_name,
              password |-> password],
            [account_name |-> account_name, real_name |-> real_name,
              password |-> password] >>

\* insert_user_account: INSERT INTO users(account_name, real_name, password)
insert_user_account(account_name, real_name, password) ==
    Append(db, [account_name |-> account_name, real_name |-> real_name,
                password |-> password])

\* socket.write(get_block(id)): out holds the last two blocks written
write(s, block) == [s EXCEPT !.out = <<s.out[2], block>>]

----------------------------------------------------------------------------
(* What the peers send *)

Line(text) == Append(text, "NL")

Closed == <<>>

Testuser1 == <<"t", "e", "s", "t", "u", "s", "e", "r", "1">>
Bobby == <<"b", "o", "b", "b", "y">>
Blahblahblah == <<"b", "l", "a", "h", "b", "l", "a", "h", "b", "l", "a", "h">>
Opensesame == <<"o", "p", "e", "n", "s", "e", "s", "a", "m", "e">>
JohnDoe == <<"J", "o", "h", "n", "SP", "D", "o", "e">>

Short == <<"s", "h", "o", "r", "t">>
Swordfish12 == <<"s", "w", "o", "r", "d", "f", "i", "s", "h", "1", "2">>

\* what the peers of two concurrent connections answer to each prompt
Inputs ==
    [login |-> {Closed, Line(<<"c">>), Line(Testuser1), Line(Bobby)},
     password |-> {Closed, Line(Blahblahblah), Line(Opensesame)},
     new_account |-> {Closed, Line(Bobby), Line(Testuser1)},
     real_name |-> {Closed, Line(JohnDoe)},
     new_password |-> {Closed, Line(Opensesame), Line(Swordfish12), Line(Short)},
     reenter |-> {Closed, Line(Opensesame), Line(Swordfish12)},
     loop |-> {Closed, Line(<<"h", "i">>)}]

\* what the peer of a single connection answers to each prompt
RichInputs ==
    [login |-> {Closed, Line(<<"c">>), Line(<<>>), Line(Testuser1), Line(Bobby),
                <<"xFF", "NL">>},
     password |-> {Closed, Line(Blahblahblah), Line(Opensesame)},
     new_account |-> {Closed, Line(Bobby), Line(Testuser1), Line(<<"a", "b", "c">>),
                      Line(<<"a", "b", "c", "d">>), Line(Rep("a", MaxAccountNameLen)),
                      Line(Rep("a", MaxAccountNameLen + 1)),
                      Line(<<"1", "a", "b", "c", "d">>),
                      Line(<<"a", "b", "SP", "c", "d">>),
                      Line(<<"b", "o", "b", "b", "y", "SP", "SP">>),
                      Line(<<"a", "b", "ESC", "[", "1", "m">>),
                      Line(<<"a", "b", "BSL", "0", "3", "3", "[", "1", "m">>)},
     real_name |-> {Closed, Line(JohnDoe)},
     new_password |-> {Closed, Line(Opensesame), Line(Short),
                       Line(Rep("p", MinPasswordLen - 1)),
                       Line(Rep("p", MaxPasswordLen)),
                       Line(Rep("p", MaxPasswordLen + 1)),
                       Line(<<"o", "p", "e", "n", "SP", "s", "e", "s", "a", "m", "e">>)},
     reenter |-> {Closed, Line(Opensesame), Line(Rep("p", MaxPasswordLen))},
     loop |-> {Closed, Line(<<"h", "i">>)}]

----------------------------------------------------------------------------
(* Initial state *)

\* db/init_db.py: insert_test_users
InitialRows ==
    << [account_name |-> Testuser1,
        real_name |-> hashpw(JohnDoe, "s1"),
        password |-> hashpw(Blahblahblah, "s2")] >>
\* the three processors of vow_mud.py
Processors == {"command_processor", "chat_processor", "movement_processor"}

NoItem == [user |-> "None", message |-> <<>>]

\* __init__: __shutdown = False, __queue = None (pc "init": run() has not
\* created the queue yet).  calls counts the calls of process() so far.
NewProcessor ==
    [pc |-> "init", shutdown |-> FALSE, queue |-> <<>>, unfinished |-> 0,
     item |-> NoItem, visited |-> {}, size |-> 0, calls |-> 0]


Init ==
    /\ pc = [c \in Conns |-> "new"]
    /\ machine = [c \in Conns |-> NewMachine]
    /\ state = [c \in Conns |-> "None"]
    /\ checked = [c \in Conns |-> FALSE]
    /\ user_pkg = [c \in Conns |-> UserAuthPackage]
    /\ user = [c \in Conns |-> create_user]
    /\ users = {}
    /\ db = InitialRows
    /\ sock = [c \in Conns |-> [out |-> <<"None", "None">>, closed |-> FALSE]]
    /\ input_read = [c \in Conns |-> NoInput]
    /\ lookups = [c \in Conns |-> {}]
    /\ proc = [p \in Processors |-> NewProcessor]

----------------------------------------------------------------------------
(* AuthStateMachine.run and handle_connection *)

\* user_input = await user_pkg.input_reader.read(100), in handler `by`
Read(c, by, data) ==
    input_read' = [input_read EXCEPT ![c] = [by |-> by, data |-> data]]

\* a handler that reads nothing
NoRead(c) == input_read' = [input_read EXCEPT ![c] = NoInput]

\* the calls of query_table and is_logged_in that `handler` makes in this
\* step, added to those it made before it was suspended
Asks(c, handler, earlier, calls) ==
    lookups' = [lookups EXCEPT ![c] = earlier \cup {<<handler, f>> : f \in calls}]

\* a handler's return value (new_state, user_pkg)
Ret(new_state) == <<new_state, "user_pkg">>

\* the handler run() awaits next for connection c
Runs(c, handler) ==
    /\ pc[c] = "auth"
    /\ state[c] \in DOMAIN machine[c].handlers
    /\ machine[c].handlers[state[c]] = handler

\* AfterRun without the is_authorized() test
AfterRun_NoTest(c, u, s) ==
    /\ pc' = [pc EXCEPT ![c] = "loop"]
    /\ sock' = [sock EXCEPT ![c] = s]
    /\ users' = users

\* handle_connection after run() has returned, up to its next suspension:
\* the input loop for an authorized user, else close and unregister
AfterRun(c, u, s) ==
    IF u.authorized
    THEN /\ pc' = [pc EXCEPT ![c] = "loop"]
         /\ sock' = [sock EXCEPT ![c] = s]
         /\ users' = users
    ELSE /\ pc' = [pc EXCEPT ![c] = "done"]
         /\ sock' = [sock EXCEPT ![c] = [s EXCEPT !.closed = TRUE]]
         /\ users' = users \ {c}

\* an exception leaves run() and handle_connection: nothing is closed or
\* unregistered
Raise(c, u, s) ==
    /\ pc' = [pc EXCEPT ![c] = "aborted"]
    /\ machine' = machine
    /\ state' = state
    /\ user_pkg' = [user_pkg EXCEPT ![c] = UserAuthPackage]
    /\ user' = [user EXCEPT ![c] = u]
    /\ sock' = [sock EXCEPT ![c] = s]
    /\ users' = users

\* Return that looks the handler up before it tests for an end state
Return_LooksUpFirst(c, ret, pkg, u, s) ==
    IF Len(ret) # 2
    THEN Raise(c, u, s)
    ELSE IF ret[1] \in DOMAIN machine[c].handlers
    THEN /\ pc' = pc
         /\ machine' = machine
         /\ state' = [state EXCEPT ![c] = ret[1]]
         /\ user_pkg' = [user_pkg EXCEPT ![c] = pkg]
         /\ user' = [user EXCEPT ![c] = u]
         /\ sock' = [sock EXCEPT ![c] = s]
         /\ users' = users
    ELSE /\ state' = [state EXCEPT ![c] = ret[1]]
         /\ machine' = machine
         /\ user_pkg' = [user_pkg EXCEPT ![c] = UserAuthPackage]
         /\ user' = [user EXCEPT ![c] = u]
         /\ AfterRun(c, u, s)

\* Return that takes a state without a handler for the end of the run
Return_UnknownEndsRun(c, ret, pkg, u, s) ==
    IF Len(ret) # 2
    THEN Raise(c, u, s)
    ELSE IF InEndStates(machine[c], ret[1]) \/ ret[1] \notin DOMAIN machine[c].handlers
    THEN /\ state' = [state EXCEPT ![c] = ret[1]]
         /\ machine' = machine
         /\ user_pkg' = [user_pkg EXCEPT ![c] = UserAuthPackage]
         /\ user' = [user EXCEPT ![c] = u]
         /\ AfterRun(c, u, s)
    ELSE /\ pc' = pc
         /\ machine' = machine
         /\ state' = [state EXCEPT ![c] = ret[1]]
         /\ user_pkg' = [user_pkg EXCEPT ![c] = pkg]
         /\ user' = [user EXCEPT ![c] = u]
         /\ sock' = [sock EXCEPT ![c] = s]
         /\ users' = users

\* run(): (new_state, user_pkg) = await handler(user_pkg); a return value
\* that does not unpack to two items raises ValueError; an end state breaks
\* the loop; handlers[new_state] raises KeyError for an unknown state.
\* pkg, u and s are the package, the user and the socket as the handler
\* left them.
Return(c, ret, pkg, u, s) ==
    IF Len(ret) # 2
    THEN Raise(c, u, s)
    ELSE IF InEndStates(machine[c], ret[1])
    THEN /\ state' = [state EXCEPT ![c] = ret[1]]
         /\ machine' = machine
         /\ user_pkg' = [user_pkg EXCEPT ![c] = UserAuthPackage]
         /\ user' = [user EXCEPT ![c] = u]
         /\ AfterRun(c, u, s)
    ELSE IF ret[1] \notin DOMAIN machine[c].handlers
    THEN /\ pc' = [pc EXCEPT ![c] = "aborted"]
         /\ machine' = machine
         /\ state' = [state EXCEPT ![c] = ret[1]]
         /\ user_pkg' = [user_pkg EXCEPT ![c] = UserAuthPackage]
         /\ user' = [user EXCEPT ![c] = u]
         /\ sock' = [sock EXCEPT ![c] = s]
         /\ users' = users
    ELSE /\ pc' = pc
         /\ machine' = machine
         /\ state' = [state EXCEPT ![c] = ret[1]]
         /\ user_pkg' = [user_pkg EXCEPT ![c] = pkg]
         /\ user' = [user EXCEPT ![c] = u]
         /\ sock' = [sock EXCEPT ![c] = s]
         /\ users' = users

\* run(): handler = self.handlers[self.start_state], KeyError when the
\* start state has no entry
RunStart(c, m) ==
    IF m.start_state \in DOMAIN m.handlers
    THEN /\ pc' = [pc EXCEPT ![c] = "auth"]
         /\ state' = [state EXCEPT ![c] = m.start_state]
    ELSE /\ pc' = [pc EXCEPT ![c] = "aborted"]
         /\ state' = state

\* handle_connection up to the first handler: create_user, register, setup, run
Connect(c) ==
    /\ pc[c] = "new"
    /\ NoRead(c)
    /\ user' = [user EXCEPT ![c] = create_user]
    /\ users' = users \cup {c}
    /\ machine' = [machine EXCEPT ![c] = Machine]
    /\ RunStart(c, Machine)
    /\ user_pkg' = [user_pkg EXCEPT ![c] = UserAuthPackage]
    /\ UNCHANGED <<checked, db, sock, lookups, proc>>

\* InputLoop that closes the socket and leaves the user registered
InputLoop_NoUnregister(c, data) ==
    /\ pc[c] = "loop"
    /\ Read(c, "InputLoop", data)
    /\ IF data = Closed
       THEN /\ pc' = [pc EXCEPT ![c] = "done"]
            /\ sock' = [sock EXCEPT ![c].closed = TRUE]
            /\ users' = users
       ELSE /\ pc' = pc
            /\ sock' = [sock EXCEPT ![c] = write(sock[c], "echo")]
            /\ users' = users
    /\ UNCHANGED <<machine, state, checked, user_pkg, user, db, lookups, proc>>

\* InputLoop that returns on the empty read without close and unregister
InputLoop_NoClose(c, data) ==
    /\ pc[c] = "loop"
    /\ Read(c, "InputLoop", data)
    /\ IF data = Closed
       THEN /\ pc' = [pc EXCEPT ![c] = "done"]
            /\ sock' = sock
            /\ users' = users
       ELSE /\ pc' = pc
            /\ sock' = [sock EXCEPT ![c] = write(sock[c], "echo")]
            /\ users' = users
    /\ UNCHANGED <<machine, state, checked, user_pkg, user, db, lookups, proc>>

\* handle_connection: the input loop of an authorized user, then close and
\* unregister
InputLoop(c, data) ==
    /\ pc[c] = "loop"
    /\ Read(c, "InputLoop", data)
    /\ IF data = Closed
       THEN /\ pc' = [pc EXCEPT ![c] = "done"]
            /\ sock' = [sock EXCEPT ![c].closed = TRUE]
            /\ users' = users \ {c}
       ELSE /\ pc' = pc
            /\ sock' = [sock EXCEPT ![c] = write(sock[c], "echo")]
            /\ users' = users
    /\ UNCHANGED <<machine, state, checked, user_pkg, user, db, lookups, proc>>

----------------------------------------------------------------------------
(* Login path *)

_state_login_title(c) ==
    /\ Runs(c, "_state_login_title")
    /\ Asks(c, "_state_login_title", {}, {})
    /\ UNCHANGED proc
    /\ NoRead(c)
    /\ Return(c, Ret("displayed_login_title"), user_pkg[c], user[c],
              write(sock[c], "000000"))
    /\ UNCHANGED <<checked, db>>

_state_login_prompt(c) ==
    /\ Runs(c, "_state_login_prompt")
    /\ Asks(c, "_state_login_prompt", {}, {})
    /\ UNCHANGED proc
    /\ NoRead(c)
    /\ Return(c, Ret("prompted_for_login"), user_pkg[c], user[c],
              write(sock[c], "000001"))
    /\ UNCHANGED <<checked, db>>

\* rows in the table plus registrations under way: peers stop choosing 'c'
\* when this reaches MaxRows
RowsPlanned ==
    Len(db) + Cardinality({k \in Conns :
                              user_pkg[k].input_tracker.cls = "AccountCreation"})

\* LoginTracker that keeps a tracker of the right class as it is
LoginTracker_KeepsSimpleAuth(tracker, user_input) ==
    [(IF tracker.cls # "SimpleAuth" THEN SimpleAuth ELSE tracker)
        EXCEPT !.account_name = user_input]

\* the tracker _state_login_process leaves for an account-name input
LoginTracker(tracker, user_input) ==
    [(IF tracker # SimpleAuth THEN SimpleAuth ELSE tracker)
        EXCEPT !.account_name = user_input]

\* _state_login_process that counts the choice of 'c' as an attempt too
_state_login_process_CountsC(c, data) ==
    /\ Runs(c, "_state_login_process")
    /\ Asks(c, "_state_login_process", {}, {})
    /\ UNCHANGED proc
    /\ Read(c, "_state_login_process", data)
    /\ (data = Line(<<"c">>) => RowsPlanned < MaxRows)
    /\ IF data = Closed
       THEN Return(c, Ret("error_state"), user_pkg[c], user[c], sock[c])
       ELSE IF ~Decodable(data)
       THEN Raise(c, user[c], sock[c])
       ELSE IF rstrip(data) = <<"c">>
       THEN Return(c, Ret("create_initial_state"),
                   [user_pkg[c] EXCEPT !.input_tracker = AccountCreation,
                                       !.user_login_attempts = @ + 1],
                   user[c], sock[c])
       ELSE Return(c, Ret("login_processed"),
                   [user_pkg[c] EXCEPT
                       !.input_tracker = LoginTracker(@, rstrip(data)),
                       !.user_login_attempts = @ + 1],
                   user[c], sock[c])
    /\ UNCHANGED <<checked, db>>

_state_login_process(c, data) ==
    /\ Runs(c, "_state_login_process")
    /\ Asks(c, "_state_login_process", {}, {})
    /\ UNCHANGED proc
    /\ Read(c, "_state_login_process", data)
    /\ (data = Line(<<"c">>) => RowsPlanned < MaxRows)
    /\ IF data = Closed
       THEN Return(c, Ret("error_state"), user_pkg[c], user[c], sock[c])
       ELSE IF ~Decodable(data)
       THEN Raise(c, user[c], sock[c])
       ELSE IF rstrip(data) = <<"c">>
       THEN Return(c, Ret("create_initial_state"),
                   [user_pkg[c] EXCEPT !.input_tracker = AccountCreation],
                   user[c], sock[c])
       ELSE Return(c, Ret("login_processed"),
                   [user_pkg[c] EXCEPT
                       !.input_tracker = LoginTracker(@, rstrip(data)),
                       !.user_login_attempts = @ + 1],
                   user[c], sock[c])
    /\ UNCHANGED <<checked, db>>

_state_password_prompt(c) ==
    /\ Runs(c, "_state_password_prompt")
    /\ Asks(c, "_state_password_prompt", {}, {})
    /\ UNCHANGED proc
    /\ NoRead(c)
    /\ Return(c, Ret("prompted_for_password"), user_pkg[c], user[c],
              write(sock[c], "000002"))
    /\ UNCHANGED <<checked, db>>

\* _state_password_process that asks the UserManager before it reads
_state_password_process_AsksFirst(c, data) ==
    /\ Runs(c, "_state_password_process")
    /\ Asks(c, "_state_password_process", {}, {"is_logged_in"})
    /\ UNCHANGED proc
    /\ Read(c, "_state_password_process", data)
    /\ IF data = Closed \/ is_logged_in(user_pkg[c].input_tracker.account_name)
       THEN Return(c, Ret("error_state"), user_pkg[c], user[c], sock[c])
       ELSE IF ~Decodable(data)
       THEN Raise(c, user[c], sock[c])
       ELSE Return(c, Ret("password_processed"),
                   [user_pkg[c] EXCEPT !.input_tracker.password = rstrip(data)],
                   user[c], sock[c])
    /\ UNCHANGED <<checked, db>>

_state_password_process(c, data) ==
    /\ Runs(c, "_state_password_process")
    /\ Asks(c, "_state_password_process", {}, {})
    /\ UNCHANGED proc
    /\ Read(c, "_state_password_process", data)
    /\ IF data = Closed
       THEN Return(c, Ret("error_state"), user_pkg[c], user[c], sock[c])
       ELSE IF ~Decodable(data)
       THEN Raise(c, user[c], sock[c])
       ELSE Return(c, Ret("password_processed"),
                   [user_pkg[c] EXCEPT !.input_tracker.password = rstrip(data)],
                   user[c], sock[c])
    /\ UNCHANGED <<checked, db>>

\* _state_validate: valid_account_name
valid_account_name(name) == query_table(name) # <<>>

\* _state_validate: valid_password, compared with query_results[0][0]
valid_password(name, password) ==
    /\ valid_account_name(name)
    /\ checkpw(password, query_table(name)[1].password)

\* MayRetry that stops one attempt earlier
MayRetry_OneLess(attempts) == attempts < MaxRetryAttempts

\* _state_validate: may the user try again after a failed validation
MayRetry(attempts) == attempts <= MaxRetryAttempts

\* _state_validate up to the first query: the is_logged_in check.  The
\* handler suspends in query_table when the check passes.
ValidateCheck(c) ==
    /\ Runs(c, "_state_validate")
    /\ Asks(c, "_state_validate", {}, {"is_logged_in"})
    /\ UNCHANGED proc
    /\ NoRead(c)
    /\ ~checked[c]
    /\ IF is_logged_in(user_pkg[c].input_tracker.account_name)
       THEN /\ Return(c, Ret("error_state"), user_pkg[c], user[c],
                      write(sock[c], "000008"))
            /\ checked' = checked
       ELSE /\ checked' = [checked EXCEPT ![c] = TRUE]
            /\ UNCHANGED <<pc, machine, state, user_pkg, user, sock, users>>
    /\ UNCHANGED db

\* ValidateResult that sends the user back for a new attempt without a word
ValidateResult_SilentRetry(name, password, attempts) ==
    IF ~valid_account_name(name) \/ ~valid_password(name, password)
    THEN IF MayRetry(attempts)
         THEN [next |-> "displayed_login_title", block |-> "None"]
         ELSE [next |-> "error_state", block |-> "000010"]
    ELSE [next |-> "validated", block |-> "None"]

\* ValidateResult that ends the run at once for a name not in the table
ValidateResult_UnknownIsFatal(name, password, attempts) ==
    IF ~valid_account_name(name)
    THEN [next |-> "error_state", block |-> "000010"]
    ELSE IF ~valid_password(name, password)
    THEN IF MayRetry(attempts)
         THEN [next |-> "displayed_login_title", block |-> "000009"]
         ELSE [next |-> "error_state", block |-> "000010"]
    ELSE [next |-> "validated", block |-> "None"]

\* ValidateResult with "and" for "or": one valid credential is enough
ValidateResult_EitherValid(name, password, attempts) ==
    IF ~valid_account_name(name) /\ ~valid_password(name, password)
    THEN IF MayRetry(attempts)
         THEN [next |-> "displayed_login_title", block |-> "000009"]
         ELSE [next |-> "error_state", block |-> "000010"]
    ELSE [next |-> "validated", block |-> "None"]

\* _state_validate: where it goes once both queries have answered
ValidateResult(name, password, attempts) ==
    IF ~valid_account_name(name) \/ ~valid_password(name, password)
    THEN IF MayRetry(attempts)
         THEN [next |-> "displayed_login_title", block |-> "000009"]
         ELSE [next |-> "error_state", block |-> "000010"]
    ELSE [next |-> "validated", block |-> "None"]

\* authorize that sets the flag and leaves the account name unbound
authorize_FlagOnly(u, tracker) == [u EXCEPT !.authorized = TRUE]

\* _state_authorized: set_authorized(True) and the binding of the account
\* name, made before the handler first suspends (in its logger call)
authorize(u, tracker) ==
    [u EXCEPT !.authorized = TRUE, !.account_name = tracker.account_name]

\* _state_validate from the first query to its return.  On 'validated'
\* run() awaits _state_authorized at once, which authorizes the user before
\* it suspends: no other connection runs in between.
ValidateLookup(c) ==
    /\ Runs(c, "_state_validate")
    /\ Asks(c, "_state_validate", lookups[c], {"query_table"})
    /\ UNCHANGED proc
    /\ NoRead(c)
    /\ checked[c]
    /\ checked' = [checked EXCEPT ![c] = FALSE]
    /\ LET r == ValidateResult(user_pkg[c].input_tracker.account_name,
                               user_pkg[c].input_tracker.password,
                               user_pkg[c].user_login_attempts)
       IN Return(c, Ret(r.next), user_pkg[c],
                 IF r.next = "validated"
                 THEN authorize(user[c], user_pkg[c].input_tracker)
                 ELSE user[c],
                 IF r.block = "None" THEN sock[c] ELSE write(sock[c], r.block))
    /\ UNCHANGED db

\* _state_authorized from its logger call to its return
_state_authorized(c) ==
    /\ Runs(c, "_state_authorized")
    /\ Asks(c, "_state_authorized", {}, {})
    /\ UNCHANGED proc
    /\ NoRead(c)
    /\ Return(c, Ret("authorized"), user_pkg[c],
              authorize(user[c], user_pkg[c].input_tracker), sock[c])
    /\ UNCHANGED <<checked, db>>

----------------------------------------------------------------------------
(* Account creation path *)

_state_new_account_prompt(c) ==
    /\ Runs(c, "_state_new_account_prompt")
    /\ Asks(c, "_state_new_account_prompt", {}, {})
    /\ UNCHANGED proc
    /\ NoRead(c)
    /\ Return(c, Ret("prompted_for_new_account_name"), user_pkg[c], user[c],
              write(sock[c], "000003"))
    /\ UNCHANGED <<checked, db>>

\* AccountNameError without the length check
AccountNameError_NoLength(user_input) ==
    IF query_table(user_input) # <<>> THEN "000017"
    ELSE IF StartsWithDigitOrHasSpace(user_input) THEN "000012"
    ELSE IF AnsiPattern(user_input) THEN "000013"
    ELSE "None"

\* _state_new_account_process: the checks made on the stripped input, in
\* order; the block of the first check that fails, "None" when all pass
AccountNameError(user_input) ==
    IF query_table(user_input) # <<>> THEN "000017"
    ELSE IF Len(user_input) < MinAccountNameLen \/ Len(user_input) > MaxAccountNameLen
    THEN "000011"
    ELSE IF StartsWithDigitOrHasSpace(user_input) THEN "000012"
    ELSE IF AnsiPattern(user_input) THEN "000013"
    ELSE "None"

_state_new_account_process(c, data) ==
    /\ Runs(c, "_state_new_account_process")
    /\ Asks(c, "_state_new_account_process", {},
            IF data # Closed /\ Decodable(data) THEN {"query_table"} ELSE {})
    /\ UNCHANGED proc
    /\ Read(c, "_state_new_account_process", data)
    /\ IF data = Closed
       THEN Return(c, Ret("error_state"), user_pkg[c], user[c], sock[c])
       ELSE IF ~Decodable(data)
       THEN Raise(c, user[c], sock[c])
       ELSE IF AccountNameError(rstrip(data)) # "None"
       THEN Return(c, Ret("create_initial_state"), user_pkg[c], user[c],
                   write(sock[c], AccountNameError(rstrip(data))))
       ELSE Return(c, Ret("new_account_name_processed"),
                   [user_pkg[c] EXCEPT !.input_tracker.account_name = rstrip(data)],
                   user[c], sock[c])
    /\ UNCHANGED <<checked, db>>

_state_real_name_prompt(c) ==
    /\ Runs(c, "_state_real_name_prompt")
    /\ Asks(c, "_state_real_name_prompt", {}, {})
    /\ UNCHANGED proc
    /\ NoRead(c)
    /\ Return(c, Ret("prompted_for_real_name"), user_pkg[c], user[c],
              write(sock[c], "000004"))
    /\ UNCHANGED <<checked, db>>

_state_real_name_process(c, data) ==
    /\ Runs(c, "_state_real_name_process")
    /\ Asks(c, "_state_real_name_process", {}, {})
    /\ UNCHANGED proc
    /\ Read(c, "_state_real_name_process", data)
    /\ IF data = Closed
       THEN Return(c, Ret("error_state"), user_pkg[c], user[c], sock[c])
       ELSE IF ~Decodable(data)
       THEN Raise(c, user[c], sock[c])
       ELSE Return(c, Ret("real_name_processed"),
                   [user_pkg[c] EXCEPT !.input_tracker.real_name = rstrip(data)],
                   user[c], sock[c])
    /\ UNCHANGED <<checked, db>>

_state_new_password_prompt(c) ==
    /\ Runs(c, "_state_new_password_prompt")
    /\ Asks(c, "_state_new_password_prompt", {}, {})
    /\ UNCHANGED proc
    /\ NoRead(c)
    /\ Return(c, Ret("prompted_for_new_password"), user_pkg[c], user[c],
              write(sock[c], "000005"))
    /\ UNCHANGED <<checked, db>>

\* NewPasswordError without the whitespace check
NewPasswordError_NoWhitespace(user_input) ==
    IF Len(user_input) < MinPasswordLen \/ Len(user_input) > MaxPasswordLen
    THEN "000014"
    ELSE "None"

\* NewPasswordError with the upper length limit not included
NewPasswordError_UpperExclusive(user_input) ==
    IF Len(user_input) < MinPasswordLen \/ Len(user_input) >= MaxPasswordLen
    THEN "000014"
    ELSE IF HasWhitespace(user_input) THEN "000015"
    ELSE "None"

\* _state_new_password_process: the checks made on the stripped input
NewPasswordError(user_input) ==
    IF Len(user_input) < MinPasswordLen \/ Len(user_input) > MaxPasswordLen
    THEN "000014"
    ELSE IF HasWhitespace(user_input) THEN "000015"
    ELSE "None"

\* _state_new_password_process: what the handler returns on an empty read,
\* the string 'error_state' itself, which unpacks to its eleven characters
NewPasswordClosedReturn ==
    <<"e", "r", "r", "o", "r", "_", "s", "t", "a", "t", "e">>

_state_new_password_process(c, data) ==
    /\ Runs(c, "_state_new_password_process")
    /\ Asks(c, "_state_new_password_process", {}, {})
    /\ UNCHANGED proc
    /\ Read(c, "_state_new_password_process", data)
    /\ IF data = Closed
       THEN Return(c, NewPasswordClosedReturn, user_pkg[c], user[c], sock[c])
       ELSE IF ~Decodable(data)
       THEN Raise(c, user[c], sock[c])
       ELSE IF NewPasswordError(rstrip(data)) # "None"
       THEN Return(c, Ret("real_name_processed"), user_pkg[c], user[c],
                   write(sock[c], NewPasswordError(rstrip(data))))
       ELSE Return(c, Ret("new_password_processed"),
                   [user_pkg[c] EXCEPT !.input_tracker.password = rstrip(data)],
                   user[c], sock[c])
    /\ UNCHANGED <<checked, db>>

_state_reenter_new_password_prompt(c) ==
    /\ Runs(c, "_state_reenter_new_password_prompt")
    /\ Asks(c, "_state_reenter_new_password_prompt", {}, {})
    /\ UNCHANGED proc
    /\ NoRead(c)
    /\ Return(c, Ret("prompted_for_reenter_new_password"), user_pkg[c], user[c],
              write(sock[c], "000006"))
    /\ UNCHANGED <<checked, db>>

_state_reenter_new_password_process(c, data) ==
    /\ Runs(c, "_state_reenter_new_password_process")
    /\ Asks(c, "_state_reenter_new_password_process", {}, {})
    /\ UNCHANGED proc
    /\ Read(c, "_state_reenter_new_password_process", data)
    /\ IF data = Closed
       THEN Return(c, Ret("error_state"), user_pkg[c], user[c], sock[c])
       ELSE IF ~Decodable(data)
       THEN Raise(c, user[c], sock[c])
       ELSE IF user_pkg[c].input_tracker.password # rstrip(data)
       THEN Return(c, Ret("real_name_processed"), user_pkg[c], user[c],
                   write(sock[c], "000016"))
       ELSE Return(c, Ret("reenter_new_password_processed"), user_pkg[c], user[c],
                   sock[c])
    /\ UNCHANGED <<checked, db>>

\* NewAccountRow with the two hashes taking each other's place
NewAccountRow_Swapped(tracker, salt) ==
    [account_name |-> tracker.account_name,
     real_name |-> hashpw(tracker.password, salt),
     password |-> hashpw(tracker.real_name, salt)]

\* _state_create_new_account: the row inserted for a tracker and a salt,
\* one salt for both hashes
NewAccountRow(tracker, salt) ==
    [account_name |-> tracker.account_name,
     real_name |-> hashpw(tracker.real_name, salt),
     password |-> hashpw(tracker.password, salt)]

_state_create_new_account(c, salt) ==
    /\ Runs(c, "_state_create_new_account")
    /\ Asks(c, "_state_create_new_account", {}, {})
    /\ UNCHANGED proc
    /\ NoRead(c)
    /\ LET row == NewAccountRow(user_pkg[c].input_tracker, salt)
       IN db' = insert_user_account(row.account_name, row.real_name, row.password)
    /\ Return(c, Ret("new_account_created"), user_pkg[c], user[c], sock[c])
    /\ UNCHANGED checked

_state_inform_of_login(c) ==
    /\ Runs(c, "_state_inform_of_login")
    /\ Asks(c, "_state_inform_of_login", {}, {})
    /\ UNCHANGED proc
    /\ NoRead(c)
    /\ Return(c, Ret("auth_initial_state"), user_pkg[c], user[c],
              write(sock[c], "000007"))
    /\ UNCHANGED <<checked, db>>

\* registered for 'error_state'; run() breaks before it could be awaited
_state_error(c) ==
    /\ Runs(c, "_state_error")
    /\ Asks(c, "_state_error", {}, {})
    /\ UNCHANGED proc
    /\ NoRead(c)
    /\ Return(c, <<"None", "user_pkg">>, user_pkg[c],
              [user[c] EXCEPT !.authorized = FALSE], sock[c])
    /\ UNCHANGED <<checked, db>>

----------------------------------------------------------------------------
(* Specification *)

\* the steps of the connections in C whose peers answer from the sets in I
NextOf(C, I) ==
    \E c \in C :
        \/ Connect(c)
        \/ _state_login_title(c)
        \/ _state_login_prompt(c)
        \/ \E data \in I.login : _state_login_process(c, data)
        \/ _state_password_prompt(c)
        \/ \E data \in I.password : _state_password_process(c, data)
        \/ ValidateCheck(c)
        \/ ValidateLookup(c)
        \/ _state_authorized(c)
        \/ _state_new_account_prompt(c)
        \/ \E data \in I.new_account : _state_new_account_process(c, data)
        \/ _state_real_name_prompt(c)
        \/ \E data \in I.real_name : _state_real_name_process(c, data)
        \/ _state_new_password_prompt(c)
        \/ \E data \in I.new_password : _state_new_password_process(c, data)
        \/ _state_reenter_new_password_prompt(c)
        \/ \E data \in I.reenter : _state_reenter_new_password_process(c, data)
        \/ \E salt \in Salts : _state_create_new_account(c, salt)
        \/ _state_inform_of_login(c)
        \/ \E data \in I.loop : InputLoop(c, data)

Next == NextOf(Conns, Inputs)

Spec == Init /\ [][Next]_vars

\* one connection whose peer answers from the larger sets
NextOne == NextOf({"c1"}, RichInputs)

SpecOne == Init /\ [][NextOne]_vars

\* what peers that never choose 'c' answer on the login path
LoginInputs ==
    [login |-> {Closed, Line(<<>>), Line(Testuser1), Line(Bobby), <<"xFF", "NL">>},
     password |-> {Closed, Line(Blahblahblah), Line(Opensesame), <<"xFF", "NL">>},
     loop |-> {Closed, Line(<<"h", "i">>)}]

\* the handlers of the login path, one turn of run()'s loop for connection c
LoginStep(c) ==
    \/ _state_login_title(c)
    \/ _state_login_prompt(c)
    \/ \E data \in LoginInputs.login : _state_login_process(c, data)
    \/ _state_password_prompt(c)
    \/ \E data \in LoginInputs.password : _state_password_process(c, data)
    \/ ValidateCheck(c)
    \/ ValidateLookup(c)
    \/ _state_authorized(c)

NextLogin ==
    \E c \in Conns :
        \/ Connect(c)
        \/ LoginStep(c)
        \/ \E data \in LoginInputs.loop : InputLoop(c, data)

\* connections that stay on the login path and whose reads all return: the
\* awaited handler is not put off for ever
LoginLiveSpec ==
    /\ Init /\ [][NextLogin]_vars
    /\ \A c \in Conns : WF_vars(LoginStep(c))

\* Spec with peers that close their transport at some time: the empty
\* read of the input loop is not put off for ever
LiveSpec ==
    /\ Init /\ [][Next]_vars
    /\ \A c \in Conns : WF_vars(InputLoop(c, Closed))

----------------------------------------------------------------------------
(* The engine on its own: a machine built by any add_state and set_start *)
(* calls, run with handlers that return any state name                    *)

\* state names the calls register and the handlers return
EngineNames == {"auth_initial_state", "validated", "error_state"}

\* handlers the calls bind, None included as setup() binds it
EngineHandlers == {"_state_login_title", "_state_authorized", "None"}

\* what a handler may return as the next state
EngineReturns == EngineNames \cup {"no_such_state"}

\* authorization_process.add_state(name, handler, end_state)
CallAddState(c, name, handler, end_state) ==
    /\ pc[c] = "new"
    /\ (end_state => Len(machine[c].end_states) < MaxEndStates)
    /\ machine' = [machine EXCEPT ![c] = add_state(@, name, handler, end_state)]
    /\ UNCHANGED <<pc, state, checked, user_pkg, user, users, db, sock, input_read,
                   lookups, proc>>

\* authorization_process.set_start(name)
CallSetStart(c, name) ==
    /\ pc[c] = "new"
    /\ machine' = [machine EXCEPT ![c] = set_start(@, name)]
    /\ UNCHANGED <<pc, state, checked, user_pkg, user, users, db, sock, input_read,
                   lookups, proc>>

\* authorization_process.run(UserAuthPackage(user, reader)) on the machine
\* as the calls left it
CallRun(c) ==
    /\ pc[c] = "new"
    /\ NoRead(c)
    /\ user' = [user EXCEPT ![c] = create_user]
    /\ users' = users \cup {c}
    /\ RunStart(c, machine[c])
    /\ user_pkg' = [user_pkg EXCEPT ![c] = UserAuthPackage]
    /\ UNCHANGED <<machine, checked, db, sock, lookups, proc>>

\* run() awaits the handler bound to the current state, which returns
\* (new_state, user_pkg); calling the handler None raises TypeError
AnyHandler(c, new_state) ==
    /\ pc[c] = "auth"
    /\ state[c] \in DOMAIN machine[c].handlers
    /\ NoRead(c)
    /\ Asks(c, machine[c].handlers[state[c]], {}, {})
    /\ UNCHANGED proc
    /\ IF machine[c].handlers[state[c]] = "None"
       THEN Raise(c, user[c], sock[c])
       ELSE Return(c, Ret(new_state), user_pkg[c], user[c], sock[c])
    /\ UNCHANGED <<checked, db>>

NextEngine ==
    \E c \in {"c1"} :
        \/ \E name \in EngineNames : \E handler \in EngineHandlers :
              \E end_state \in BOOLEAN : CallAddState(c, name, handler, end_state)
        \/ \E name \in EngineNames : CallSetStart(c, name)
        \/ CallRun(c)
        \/ \E new_state \in EngineReturns : AnyHandler(c, new_state)

SpecEngine == Init /\ [][NextEngine]_vars

----------------------------------------------------------------------------
(* The processors: core/processors/command_processor.py, chat_processor.py *)
(* and movement_processor.py.  Each run() is a task of its own; the calls  *)
(* of process() and shutdown() come from other tasks.  The rooms and exits *)
(* of the world are rows of the database and are not part of the model: a  *)
(* move or a look finds a matching exit or does not.                       *)

Uppercase ==
    <<"A", "B", "C", "D", "E", "F", "G", "H", "I", "J", "K", "L", "M",
      "N", "O", "P", "Q", "R", "S", "T", "U", "V", "W", "X", "Y", "Z">>
Lowercase ==
    <<"a", "b", "c", "d", "e", "f", "g", "h", "i", "j", "k", "l", "m",
      "n", "o", "p", "q", "r", "s", "t", "u", "v", "w", "x", "y", "z">>

\* str.lower()
lower(s) ==
    [i \in 1..Len(s) |->
        IF \E j \in 1..26 : Uppercase[j] = s[i]
        THEN Lowercase[CHOOSE j \in 1..26 : Uppercase[j] = s[i]]
        ELSE s[i]]

\* str.partition(' '): the text before the first blank, the blank, the rest
partition(s) ==
    IF \A i \in 1..Len(s) : s[i] # "SP"
    THEN <<s, <<>>, <<>>>>
    ELSE LET i == CHOOSE i \in 1..Len(s) :
                     /\ s[i] = "SP"
                     /\ \A j \in 1..(i - 1) : s[j] # "SP"
         IN <<SubSeq(s, 1, i - 1), <<"SP">>, SubSeq(s, i + 1, Len(s))>>

Gos == <<"/", "g", "o", "s">>
Gossip == <<"/", "g", "o", "s", "s", "i", "p">>
Tell == <<"/", "t", "e", "l", "l">>

\* command_processor.py: _command_map
_command_map ==
    [command \in {Gos, Gossip, Tell} |-> "chat_processor"]

\* MovementProcessor.directions: its keys
directions ==
    {<<"n">>, <<"n", "o", "r", "t", "h">>, <<"s">>, <<"s", "o", "u", "t", "h">>,
     <<"e">>, <<"e", "a", "s", "t">>, <<"w">>, <<"w", "e", "s", "t">>,
     <<"n", "w">>, <<"n", "o", "r", "t", "h", "w", "e", "s", "t">>,
     <<"n", "e">>, <<"n", "o", "r", "t", "h", "e", "a", "s", "t">>,
     <<"s", "e">>, <<"s", "o", "u", "t", "h", "e", "a", "s", "t">>,
     <<"s", "w">>, <<"s", "o", "u", "t", "h", "w", "e", "s", "t">>}

\* asyncio.Queue.put_nowait: the item joins the queue and counts as an
\* unfinished task
put(q, item) ==
    [q EXCEPT !.queue = Append(@, item), !.unfinished = @ + 1]

\* asyncio.Queue.task_done
task_done(q) == [q EXCEPT !.unfinished = @ - 1]

\* the test of 'while not self.__shutdown' once the item at hand is dealt
\* with: run() returns 0 or awaits the next item
LoopTop(q) ==
    [q EXCEPT !.pc = IF q.shutdown THEN "returned" ELSE "get",
              !.item = NoItem, !.visited = {}, !.size = 0]

\* an exception leaves run(): the task is over
ProcessorRaise(q) ==
    [q EXCEPT !.pc = "raised", !.item = NoItem, !.visited = {}, !.size = 0]

\* socket.write(...) on a transport: what is written after close() is
\* dropped
send(s, block) == IF s.closed THEN s ELSE write(s, block)

\* what the processor steps leave alone
ProcessorFrame ==
    UNCHANGED <<pc, machine, state, checked, user_pkg, user, users, db, input_read,
                lookups>>

\* vow_mud.py main: the order in which the run() tasks are created
StartOrder == <<"command_processor", "chat_processor", "movement_processor">>

\* run() up to its first await: the queue is created and the loop entered.
\* The tasks start in the order of their creation.
ProcessorRun(p) ==
    /\ proc[p].pc = "init"
    /\ \A i, j \in 1..3 : (i < j /\ StartOrder[j] = p) => proc[StartOrder[i]].pc # "init"
    /\ proc' = [proc EXCEPT ![p] = LoopTop(@)]
    /\ sock' = sock
    /\ ProcessorFrame

\* shutdown()
ProcessorShutdown(p) ==
    /\ proc[p].pc # "init"
    /\ ~proc[p].shutdown
    /\ proc' = [proc EXCEPT ![p].shutdown = TRUE]
    /\ sock' = sock
    /\ ProcessorFrame

\* the items the processors hold: those in the queues and those being
\* handled
InFlight ==
    LET held(p) == Len(proc[p].queue) + (IF proc[p].pc \in {"handle", "gossip"} THEN 1 ELSE 0)
    IN held("command_processor") + held("chat_processor") + held("movement_processor")

\* the calls of process() so far
Calls ==
    proc["command_processor"].calls + proc["chat_processor"].calls
    + proc["movement_processor"].calls

\* vow_mud.py main: the three run() tasks are created before the server
\* starts, so each has reached its first await before a connection is
\* accepted
Started == \A p \in Processors : proc[p].pc # "init"

\* process(user, command), called for a user in the input loop:
\* await self.__queue.put((user, command))
process(p, u, message) ==
    /\ pc[u] = "loop"
    /\ Started
    /\ InFlight < MaxItems
    /\ Calls < MaxCalls
    /\ proc' = [proc EXCEPT ![p] = [put(@, [user |-> u, message |-> message])
                                       EXCEPT !.calls = @ + 1]]
    /\ sock' = sock
    /\ ProcessorFrame

\* _consume(): await self.__queue.get() returns the oldest item
_consume(p) ==
    /\ proc[p].pc = "get"
    /\ proc[p].queue # <<>>
    /\ proc' = [proc EXCEPT ![p].pc = "handle",
                            ![p].item = Head(proc[p].queue),
                            ![p].queue = Tail(@)]
    /\ sock' = sock
    /\ ProcessorFrame

\* CommandProcessor.run: one turn of the loop after _consume.  drained is
\* whether socket.drain() returns: on a closed transport it may raise
\* ConnectionResetError.
CommandProcessorTurn(drained) ==
    LET q == proc["command_processor"]
        command == partition(q.item.message)[1]
    IN /\ q.pc = "handle"
       /\ IF command \notin DOMAIN _command_map
          THEN /\ drained \/ sock[q.item.user].closed
               /\ sock' = [sock EXCEPT ![q.item.user] = send(@, "invalid_command")]
               /\ proc' = [proc EXCEPT !["command_processor"] =
                              IF drained THEN LoopTop(q) ELSE ProcessorRaise(q)]
          ELSE LET target == _command_map[command]
               IN /\ drained
                  /\ sock' = sock
                  /\ proc' = [proc EXCEPT
                                ![target] = put(@, q.item),
                                !["command_processor"] = LoopTop(task_done(q))]
       /\ ProcessorFrame

\* the socket _gossip writes to for the registered user k: the source's
\* own for a user of the source's account name
GossipSocket(src, k) ==
    IF user[k].account_name = user[src].account_name THEN src ELSE k

\* _gossip: one turn of 'for _, user in users.items()' and what follows it
\* up to the next await.  The dictionary iterator raises RuntimeError when
\* the dictionary changed size since the loop began.
_gossip(q, drained) ==
    IF Cardinality(users) # q.size
    THEN /\ drained
         /\ sock' = sock
         /\ proc' = [proc EXCEPT !["chat_processor"] = ProcessorRaise(q)]
    ELSE IF users \ q.visited = {}
    THEN /\ drained
         /\ sock' = sock
         /\ proc' = [proc EXCEPT !["chat_processor"] = LoopTop(task_done(q))]
    ELSE \E k \in users \ q.visited :
            /\ drained \/ sock[GossipSocket(q.item.user, k)].closed
            /\ sock' = [sock EXCEPT ![GossipSocket(q.item.user, k)] = send(@, "gossip")]
            /\ proc' = [proc EXCEPT !["chat_processor"] =
                           IF drained
                           THEN [q EXCEPT !.pc = "gossip", !.visited = @ \cup {k}]
                           ELSE ProcessorRaise(q)]

\* _tell, taken as one step
_tell(q, payload, drained) ==
    LET destination_account_name == partition(payload)[1]
        source == q.item.user
    IN /\ drained \/ sock[source].closed
       /\ IF is_logged_in(destination_account_name)
          THEN \E destination \in users :
                  /\ user[destination].account_name = destination_account_name
                  /\ sock' = [k \in Conns |->
                                 IF k = source /\ k = destination
                                 THEN send(send(sock[k], "tell"), "tell")
                                 ELSE IF k = source \/ k = destination
                                 THEN send(sock[k], "tell")
                                 ELSE sock[k]]
          ELSE sock' = [sock EXCEPT ![source] = send(@, "not_logged_in")]
       /\ proc' = [proc EXCEPT !["chat_processor"] =
                      IF drained THEN LoopTop(task_done(q)) ELSE ProcessorRaise(q)]

\* ChatProcessor.run: _route_chat for the item _consume returned
_route_chat(drained) ==
    LET q == proc["chat_processor"]
        command == partition(q.item.message)
    IN /\ q.pc = "handle"
       /\ IF command[1] \in {Gos, Gossip}
          THEN _gossip([q EXCEPT !.size = Cardinality(users)], drained)
          ELSE IF command[1] \in {Tell}
          THEN _tell(q, command[3], drained)
          ELSE /\ drained
               /\ sock' = sock
               /\ proc' = [proc EXCEPT !["chat_processor"] = LoopTop(q)]
       /\ ProcessorFrame

\* _gossip resumed after an await inside its loop
GossipResume(drained) ==
    /\ proc["chat_processor"].pc = "gossip"
    /\ _gossip(proc["chat_processor"], drained)
    /\ ProcessorFrame

\* _move_character and _look, each taken as one step: the block written
\* and task_done()
MovementBlock(excess_or_bad_direction, exit_found) ==
    IF excess_or_bad_direction THEN "invalid_direction"
    ELSE IF exit_found THEN "room" ELSE "no_exit"

\* MovementProcessor.run: _route_movement for the item _consume returned
_route_movement(exit_found, drained) ==
    LET q == proc["movement_processor"]
        command == partition(q.item.message)[1]
        payload == partition(q.item.message)[3]
        direction == partition(payload)[1]
        excess == partition(payload)[3]
    IN /\ q.pc = "handle"
       /\ IF lower(command) \in directions \/ lower(command) \in {<<"l">>, <<"l", "o", "o", "k">>}
          THEN /\ drained \/ sock[q.item.user].closed
               /\ sock' = [sock EXCEPT ![q.item.user] =
                              send(@, IF lower(command) \in directions
                                      THEN MovementBlock(payload # <<>>, exit_found)
                                      ELSE MovementBlock(lower(direction) \notin directions
                                                            \/ excess # <<>>,
                                                         exit_found))]
               /\ proc' = [proc EXCEPT !["movement_processor"] =
                              IF drained THEN LoopTop(task_done(q)) ELSE ProcessorRaise(q)]
          ELSE /\ drained
               /\ sock' = sock
               /\ proc' = [proc EXCEPT !["movement_processor"] = LoopTop(q)]
       /\ ProcessorFrame

\* what is handed to the processors
ProcessorMessages ==
    [command_processor |-> {Gos \o <<"SP", "h", "i">>,
                            Tell \o <<"SP">> \o Testuser1 \o <<"SP", "h", "i">>,
                            <<"/", "d", "a", "n", "c", "e">>},
     chat_processor |-> {Gossip \o <<"SP", "h", "i">>, <<"/", "d", "a", "n", "c", "e">>},
     movement_processor |-> {<<"N">>, <<"n", "SP", "x">>,
                             <<"l", "o", "o", "k", "SP", "n">>,
                             <<"j", "u", "m", "p">>}]

\* what the peers of the connections answer while the processors are watched
ProcessorInputs ==
    [login |-> {Line(Testuser1)},
     password |-> {Line(Blahblahblah)},
     loop |-> {Closed}]

\* the steps of the task that runs run() of processor p
ProcessorStep(p) ==
    \/ ProcessorRun(p)
    \/ _consume(p)
    \/ /\ p = "command_processor"
       /\ \E drained \in BOOLEAN : CommandProcessorTurn(drained)
    \/ /\ p = "chat_processor"
       /\ \E drained \in BOOLEAN : _route_chat(drained)
    \/ /\ p = "chat_processor"
       /\ \E drained \in BOOLEAN : GossipResume(drained)
    \/ /\ p = "movement_processor"
       /\ \E exit_found \in BOOLEAN : \E drained \in BOOLEAN :
             _route_movement(exit_found, drained)

NextProcessors ==
    \/ \E c \in Conns :
          \/ Started /\ Connect(c)
          \/ _state_login_title(c)
          \/ _state_login_prompt(c)
          \/ \E data \in ProcessorInputs.login : _state_login_process(c, data)
          \/ _state_password_prompt(c)
          \/ \E data \in ProcessorInputs.password : _state_password_process(c, data)
          \/ ValidateCheck(c)
          \/ ValidateLookup(c)
          \/ _state_authorized(c)
          \/ \E data \in ProcessorInputs.loop : InputLoop(c, data)
    \/ \E p \in Processors : \E u \in Conns :
          \E message \in ProcessorMessages[p] : process(p, u, message)
    \/ \E p \in Processors : ProcessorShutdown(p)
    \/ \E p \in Processors : ProcessorStep(p)

\* the server with its processors
SpecProcessors == Init /\ [][NextProcessors]_vars

\* each processor task gets its turn: a step of its run() that stays
\* possible is taken
LiveSpecProcessors ==
    /\ Init /\ [][NextProcessors]_vars
    /\ \A p \in Processors : WF_vars(ProcessorStep(p))

----------------------------------------------------------------------------
(* Properties *)

\* the draft of connection c
Tracker(c) == user_pkg[c].input_tracker

\* some row of the users table has this account name and a password hash
\* that this password verifies against
StoreMatch(name, password) ==
    \E i \in 1..Len(db) :
        /\ db[i].account_name = name
        /\ hashpw(password, db[i].password.salt) = db[i].password

\* C1: a connection's authorized flag is true only if a validate step of
\* that connection found the submitted account name in the users table and
\* the submitted password verified against its stored hash; the flag is
\* set by _state_authorized alone, which run() enters only from the
\* 'validated' return of _state_validate after its lookup.
C1_AuthorizedOnlyAfterValidate ==
    /\ [](\A c \in Conns :
            (pc[c] = "auth" /\ user[c].authorized)
                => /\ state[c] = "validated"
                   /\ user[c].account_name = Tracker(c).account_name
                   /\ StoreMatch(Tracker(c).account_name, Tracker(c).password))
    /\ [](\A c \in Conns :
            user[c].authorized
                => /\ pc[c] \in {"auth", "loop", "done"}
                   /\ \E i \in 1..Len(db) : db[i].account_name = user[c].account_name)
    /\ [][\A c \in Conns :
            /\ (user'[c].authorized /\ ~user[c].authorized)
                  => /\ pc[c] = "auth" /\ state[c] = "password_processed" /\ checked[c]
                     /\ state'[c] = "validated"
            /\ (state'[c] = "validated" /\ state[c] # "validated")
                  => user'[c].authorized
            /\ (state'[c] = "authorized" /\ state[c] # "authorized")
                  => (state[c] = "validated" /\ user[c].authorized)
         ]_vars

\* C1 witness: a connection has been authorized and is in the input loop
C1_Witness == \E c \in Conns : user[c].authorized /\ pc[c] = "loop"

\* C2: no two registered connections are authorized under the same
\* account name at the same time
C2_NoDoubleLogin ==
    \A a \in Conns : \A b \in Conns :
        (a # b /\ a \in users /\ b \in users
              /\ user[a].authorized /\ user[b].authorized)
            => user[a].account_name # user[b].account_name

\* some authorized, registered connection is bound to this account name
BoundToAuthorized(name) ==
    \E k \in users : user[k].authorized /\ user[k].account_name = name

\* _state_validate of connection c returns in this step
ValidateReturns(c) ==
    /\ pc[c] = "auth" /\ state[c] = "password_processed"
    /\ state'[c] # "password_processed"

\* C3: a validation that fails for an unknown account or a wrong password
\* returns to the banner (block 000009) on attempts 1 to 4 and ends in the
\* error terminal with the max-attempts block 000010 on attempt 5; the
\* attempt counter never passes 5, so no 6th account name or password is
\* read.
C3_RetryBound ==
    /\ [](\A c \in Conns : user_pkg[c].user_login_attempts <= MaxRetryAttempts + 1)
    /\ [][\A c \in Conns :
            (/\ ValidateReturns(c)
             /\ ~StoreMatch(Tracker(c).account_name, Tracker(c).password)
             /\ ~BoundToAuthorized(Tracker(c).account_name))
            => IF user_pkg[c].user_login_attempts <= MaxRetryAttempts
               THEN /\ state'[c] = "displayed_login_title"
                    /\ pc'[c] = "auth"
                    /\ sock'[c].out[2] = "000009"
               ELSE /\ state'[c] = "error_state"
                    /\ pc'[c] = "done"
                    /\ sock'[c].out[2] = "000010"
         ]_vars

\* C4: an empty read in any reading handler of the state machine ends the
\* run in the error terminal with the authorized flag false; run() does
\* not raise.
C4_ClosedReadEndsInError ==
    \A c \in Conns :
        (input_read[c].by \notin {"None", "InputLoop"} /\ input_read[c].data = Closed)
            => /\ pc[c] = "done"
               /\ state[c] = "error_state"
               /\ ~user[c].authorized

\* C5: when _state_validate runs for an account name that is_logged_in
\* reports, the block 000008 is written and the run ends in the error
\* terminal in that very step, whatever the attempt counter is; the
\* handler never gets to its queries.
C5_DuplicateLoginEndsRun ==
    [][\A c \in Conns :
          (/\ pc[c] = "auth" /\ state[c] = "password_processed" /\ ~checked[c]
           /\ (checked'[c] \/ state'[c] # state[c] \/ pc'[c] # pc[c])
           /\ \E k \in users : user[k].account_name = Tracker(c).account_name)
          => /\ state'[c] = "error_state"
             /\ pc'[c] = "done"
             /\ sock'[c].out[2] = "000008"
             /\ ~checked'[c]
             /\ ~user'[c].authorized
             /\ db' = db
      ]_vars

\* C5 witness: a run has ended in the error terminal on the block 000008
C5_Witness ==
    \E c \in Conns :
        /\ pc[c] = "done" /\ state[c] = "error_state"
        /\ sock[c].out[2] = "000008"

\* C6: a login whose account name has a row in the users table with a
\* password hash the submitted password verifies against, and that passed
\* the is_logged_in check, ends in the authorized terminal with the flag
\* true and the user's account_name equal to the submitted name.
C6_ValidLoginAuthorizes ==
    [][\A c \in Conns :
          /\ (/\ pc[c] = "auth" /\ state[c] = "password_processed" /\ checked[c]
              /\ state'[c] # state[c]
              /\ StoreMatch(Tracker(c).account_name, Tracker(c).password))
             => /\ state'[c] = "validated"
                /\ user'[c].authorized
                /\ user'[c].account_name = Tracker(c).account_name
          /\ (pc[c] = "auth" /\ state[c] = "validated" /\ state'[c] # state[c])
             => /\ state'[c] = "authorized"
                /\ pc'[c] = "loop"
                /\ user'[c] = user[c]
      ]_vars

\* C7: only a connection whose run ended in 'authorized' with the flag true
\* reaches the input loop, has input read by it or echoed; a connection
\* whose run ended in the error terminal is closed and unregistered and
\* none of its input is read by the loop.
C7_LoopOnlyWhenAuthorized ==
    \A c \in Conns :
        /\ (pc[c] = "loop" \/ input_read[c].by = "InputLoop"
                \/ sock[c].out[2] = "echo")
              => (state[c] = "authorized" /\ user[c].authorized)
        /\ state[c] = "error_state"
              => /\ pc[c] = "done"
                 /\ sock[c].closed
                 /\ c \notin users
                 /\ ~user[c].authorized
                 /\ input_read[c].by # "InputLoop"
                 /\ sock[c].out[2] # "echo"

\* C7 witness: one connection has had input echoed by the loop while
\* another has ended in the error terminal
C7_Witness ==
    \E c \in Conns : \E d \in Conns :
        /\ pc[c] = "loop" /\ sock[c].out[2] = "echo"
        /\ state[d] = "error_state"

\* C8: _state_create_new_account appends exactly one row, with the draft's
\* account name; _state_inform_of_login then writes block 000007 and goes
\* back to 'auth_initial_state' with the authorized flag false; no other
\* step changes the table, and the flag is raised only for a login draft.
C8_RegistrationReturnsToLogin ==
    [][\A c \in Conns :
          /\ (/\ pc[c] = "auth" /\ state[c] = "reenter_new_password_processed"
              /\ state'[c] # state[c])
             => /\ state'[c] = "new_account_created"
                /\ Len(db') = Len(db) + 1
                /\ SubSeq(db', 1, Len(db)) = db
                /\ LET row == db'[Len(db')]
                   IN /\ row.account_name = Tracker(c).account_name
                      /\ hashpw(Tracker(c).password, row.password.salt) = row.password
                      /\ hashpw(Tracker(c).real_name, row.real_name.salt) = row.real_name
                /\ ~user'[c].authorized
          /\ (pc[c] = "auth" /\ state[c] = "new_account_created"
              /\ state'[c] # state[c])
             => /\ state'[c] = "auth_initial_state"
                /\ pc'[c] = "auth"
                /\ sock'[c].out[2] = "000007"
                /\ db' = db
                /\ ~user'[c].authorized
          /\ (user'[c].authorized /\ ~user[c].authorized)
             => Tracker(c).cls = "SimpleAuth"
          /\ (db' # db)
             => \E k \in Conns : /\ state[k] = "reenter_new_password_processed"
                                 /\ state'[k] = "new_account_created"
      ]_vars

\* C8 witness: back at the start of the login path after the success
\* block, one row richer and not authorized
C8_Witness ==
    \E c \in Conns :
        /\ pc[c] = "auth" /\ state[c] = "auth_initial_state"
        /\ sock[c].out[2] = "000007"
        /\ Len(db) = Len(InitialRows) + 1
        /\ ~user[c].authorized

\* C9: the users table holds at most one row per account name
C9_UniqueAccountNames ==
    \A i \in 1..Len(db) : \A j \in 1..Len(db) :
        i # j => db[i].account_name # db[j].account_name

\* the text contains the ESC control character, '[', ..., 'm'
HasAnsiEscape(s) ==
    \E i \in 1..Len(s) : \E j \in 1..Len(s) :
        /\ i + 1 < j
        /\ s[i] = "ESC" /\ s[i + 1] = "["
        /\ s[j] = "m"

\* C10: an account-name input whose stripped text has 4 to 20 characters,
\* no leading digit, no whitespace and no ANSI escape sequence, and is not
\* an account name of the table, becomes the draft's account_name and the
\* session advances to the real-name prompt.
C10_GoodAccountNameAccepted ==
    \A c \in Conns :
        (/\ pc[c] = "auth"
         /\ input_read[c].by = "_state_new_account_process"
         /\ input_read[c].data # Closed
         /\ Decodable(input_read[c].data)
         /\ LET n == rstrip(input_read[c].data)
            IN /\ Len(n) >= MinAccountNameLen /\ Len(n) <= MaxAccountNameLen
               /\ n[1] \notin Digits
               /\ ~HasWhitespace(n)
               /\ ~HasAnsiEscape(n)
               /\ \A i \in 1..Len(db) : db[i].account_name # n)
        => /\ state[c] = "new_account_name_processed"
           /\ Tracker(c).account_name = rstrip(input_read[c].data)

\* connection c's _state_new_account_process reads a decodable line in
\* this step
ReadsAccountName(c) ==
    /\ pc[c] = "auth" /\ state[c] = "prompted_for_new_account_name"
    /\ input_read'[c].by = "_state_new_account_process"
    /\ input_read'[c].data # Closed
    /\ Decodable(input_read'[c].data)

\* the stripped account name is in the table, is shorter than 4 or longer
\* than 20, starts with a digit or contains whitespace
BadAccountName(n) ==
    \/ \E i \in 1..Len(db) : db[i].account_name = n
    \/ Len(n) < MinAccountNameLen
    \/ Len(n) > MaxAccountNameLen
    \/ (n # <<>> /\ n[1] \in Digits)
    \/ \E i \in 1..Len(n) : n[i] \in Whitespace

\* C11: an account-name input that exists in the table, has a length
\* outside [4,20], starts with a digit or contains whitespace is rejected:
\* one of the blocks 000017, 000011, 000012 is written, the session goes to
\* 'create_initial_state' with the draft and the attempt counter unchanged,
\* and the next handler writes the account-name prompt 000003 again.
C11_BadAccountNameRejected ==
    [][\A c \in Conns :
          /\ (ReadsAccountName(c) /\ BadAccountName(rstrip(input_read'[c].data)))
             => /\ state'[c] = "create_initial_state"
                /\ pc'[c] = "auth"
                /\ sock'[c].out[2] \in {"000017", "000011", "000012"}
                /\ user_pkg'[c] = user_pkg[c]
                /\ db' = db
          /\ (pc[c] = "auth" /\ state[c] = "create_initial_state"
                /\ state'[c] # state[c])
             => /\ state'[c] = "prompted_for_new_account_name"
                /\ sock'[c].out[2] = "000003"
                /\ user_pkg'[c] = user_pkg[c]
      ]_vars

\* C11 witness: a name has just been rejected for its length
C11_Witness ==
    \E c \in Conns :
        /\ pc[c] = "auth" /\ state[c] = "create_initial_state"
        /\ input_read[c].by = "_state_new_account_process"
        /\ sock[c].out = <<"000003", "000011">>

\* C12: an account-name input that contains an ANSI escape sequence is
\* rejected at the account-name step (the session goes back to
\* 'create_initial_state' and the draft does not take the name), and no
\* row of the users table has such an account name.
C12_AnsiAccountNameRejected ==
    /\ \A c \in Conns :
          (/\ pc[c] = "auth"
           /\ input_read[c].by = "_state_new_account_process"
           /\ input_read[c].data # Closed
           /\ Decodable(input_read[c].data)
           /\ HasAnsiEscape(rstrip(input_read[c].data)))
          => /\ state[c] = "create_initial_state"
             /\ Tracker(c).account_name # rstrip(input_read[c].data)
    /\ \A i \in 1..Len(db) : ~HasAnsiEscape(db[i].account_name)

\* connection c's _state_new_password_process reads a decodable line in
\* this step
ReadsNewPassword(c) ==
    /\ pc[c] = "auth" /\ state[c] = "prompted_for_new_password"
    /\ input_read'[c].by = "_state_new_password_process"
    /\ input_read'[c].data # Closed
    /\ Decodable(input_read'[c].data)

\* the stripped password has 10 to 30 characters and no whitespace
GoodPassword(p) ==
    /\ Len(p) >= MinPasswordLen /\ Len(p) <= MaxPasswordLen
    /\ \A i \in 1..Len(p) : p[i] \notin Whitespace

\* C13: a new-password input is accepted (it becomes the draft's password
\* and the session goes on to the confirmation prompt 000006) if and only
\* if its stripped text has 10 to 30 characters and no whitespace; a
\* rejected input leaves the draft as it was.
C13_PasswordAcceptedIff ==
    [][\A c \in Conns :
          /\ ReadsNewPassword(c)
             => IF GoodPassword(rstrip(input_read'[c].data))
                THEN /\ state'[c] = "new_password_processed"
                     /\ Tracker(c)' = [Tracker(c) EXCEPT
                                          !.password = rstrip(input_read'[c].data)]
                     /\ sock'[c] = sock[c]
                ELSE /\ state'[c] # "new_password_processed"
                     /\ user_pkg'[c] = user_pkg[c]
                     /\ sock'[c].out[2] \in {"000014", "000015"}
          /\ (pc[c] = "auth" /\ state[c] = "new_password_processed"
                /\ state'[c] # state[c])
             => /\ state'[c] = "prompted_for_reenter_new_password"
                /\ sock'[c].out[2] = "000006"
                /\ user_pkg'[c] = user_pkg[c]
      ]_vars

\* C13 witness: a password of the largest accepted length is the draft's
\* password at the confirmation prompt
C13_WitnessAccepted ==
    \E c \in Conns :
        /\ pc[c] = "auth" /\ state[c] = "prompted_for_reenter_new_password"
        /\ Tracker(c).password = Rep("p", MaxPasswordLen)
        /\ sock[c].out[2] = "000006"

\* connection c's _state_reenter_new_password_process reads a decodable
\* line in this step
ReadsConfirmation(c) ==
    /\ pc[c] = "auth" /\ state[c] = "prompted_for_reenter_new_password"
    /\ input_read'[c].by = "_state_reenter_new_password_process"
    /\ input_read'[c].data # Closed
    /\ Decodable(input_read'[c].data)

\* C14 as the specification states it: after a new-password input that
\* fails a rule (blocks 000014, 000015) or a confirmation that differs
\* (block 000016), the next prompt written is the real-name prompt 000004
\* and the next input is read by the real-name handler.
C14_FailureReturnsToRealNamePrompt ==
    [][\A c \in Conns :
          (/\ pc[c] = "auth" /\ state[c] = "real_name_processed"
           /\ sock[c].out[2] \in {"000014", "000015", "000016"}
           /\ state'[c] # state[c])
          => /\ state'[c] = "prompted_for_real_name"
             /\ sock'[c].out[2] = "000004"
      ]_vars

\* C14, amended: a new-password input that fails a rule and a confirmation
\* that differs both send the session to 'real_name_processed', the state
\* whose handler writes the new-password prompt 000005; the next input is
\* read by _state_new_password_process, and the draft keeps the real name
\* collected before.
C14_FailureReturnsToNewPasswordPrompt ==
    [][\A c \in Conns :
          /\ (ReadsNewPassword(c) /\ ~GoodPassword(rstrip(input_read'[c].data)))
             => /\ state'[c] = "real_name_processed"
                /\ sock'[c].out[2] \in {"000014", "000015"}
          /\ (ReadsConfirmation(c)
                /\ rstrip(input_read'[c].data) # Tracker(c).password)
             => /\ state'[c] = "real_name_processed"
                /\ sock'[c].out[2] = "000016"
                /\ user_pkg'[c] = user_pkg[c]
          /\ (pc[c] = "auth" /\ state[c] = "real_name_processed"
                /\ state'[c] # state[c])
             => /\ state'[c] = "prompted_for_new_password"
                /\ sock'[c].out[2] = "000005"
                /\ user_pkg'[c] = user_pkg[c]
          /\ (pc[c] = "auth" /\ state[c] = "prompted_for_new_password"
                /\ input_read'[c] # input_read[c])
             => /\ input_read'[c].by = "_state_new_password_process"
                /\ (pc'[c] = "auth"
                      => Tracker(c)'.real_name = Tracker(c).real_name)
      ]_vars

\* C14 witness: the new-password prompt follows the mismatch block, and
\* the draft still holds the real name
C14_Witness ==
    \E c \in Conns :
        /\ pc[c] = "auth" /\ state[c] = "prompted_for_new_password"
        /\ sock[c].out = <<"000016", "000005">>
        /\ Tracker(c).real_name = JohnDoe

\* C15: _state_create_new_account runs only after a confirmation whose
\* stripped text equals the draft's password; a confirmation that differs
\* leaves the table alone and does not lead to the insert; the row
\* inserted holds the hash of the confirmed password.
C15_InsertOnlyAfterConfirmation ==
    /\ [](\A c \in Conns :
            (pc[c] = "auth" /\ state[c] = "reenter_new_password_processed")
                => /\ input_read[c].by = "_state_reenter_new_password_process"
                   /\ rstrip(input_read[c].data) = Tracker(c).password)
    /\ [][\A c \in Conns :
            /\ (ReadsConfirmation(c)
                  /\ rstrip(input_read'[c].data) # Tracker(c).password)
               => /\ state'[c] # "reenter_new_password_processed"
                  /\ db' = db
            /\ (state'[c] = "new_account_created" /\ state[c] # state'[c])
               => /\ state[c] = "reenter_new_password_processed"
                  /\ Len(db') = Len(db) + 1
                  /\ db'[Len(db')].account_name = Tracker(c).account_name
                  /\ checkpw(Tracker(c).password, db'[Len(db')].password)
                  /\ \A p \in {Opensesame, Swordfish12, Rep("p", MaxPasswordLen)} :
                        checkpw(p, db'[Len(db')].password) => p = Tracker(c).password
            /\ (db' # db)
               => \E k \in Conns : /\ state[k] = "reenter_new_password_processed"
                                   /\ state'[k] = "new_account_created"
         ]_vars

\* C15 witness: the account was created with the password that was typed
\* twice
C15_Witness ==
    \E c \in Conns :
        /\ pc[c] = "auth" /\ state[c] = "new_account_created"
        /\ Len(db) > Len(InitialRows)
        /\ checkpw(Rep("p", MaxPasswordLen), db[Len(db)].password)

\* C16: round trip of registration and login.  For every row that
\* _state_create_new_account inserted for the submitted account name, a
\* login that passed the is_logged_in check is validated and authorized
\* when its password verifies against that row's hash, and is not
\* validated when it does not.
C16_RegisterThenLogin ==
    [][\A c \in Conns :
          (/\ pc[c] = "auth" /\ state[c] = "password_processed" /\ checked[c]
           /\ state'[c] # state[c])
          => \A i \in (Len(InitialRows) + 1)..Len(db) :
                (db[i].account_name = Tracker(c).account_name)
                => IF checkpw(Tracker(c).password, db[i].password)
                   THEN /\ state'[c] = "validated"
                        /\ user'[c].authorized
                        /\ user'[c].account_name = db[i].account_name
                   ELSE /\ state'[c] # "validated"
                        /\ ~user'[c].authorized
      ]_vars

\* C17: when a handler returns a state that is neither in end_states nor a
\* key of the handler table, run() aborts at the lookup: the run goes on
\* only with states of the table, it ends as terminated only in a state of
\* end_states, and an aborted run invokes no handler any more.
C17_UnknownStateAborts ==
    /\ [](\A c \in Conns :
            /\ pc[c] = "auth" => state[c] \in DOMAIN machine[c].handlers
            /\ pc[c] \in {"done", "loop"} => InEndStates(machine[c], state[c])
            /\ (/\ pc[c] # "new" /\ state[c] # "None"
                /\ state[c] \notin DOMAIN machine[c].handlers
                /\ ~InEndStates(machine[c], state[c]))
               => pc[c] = "aborted")
    /\ [][\A c \in Conns :
            pc[c] = "aborted"
               => /\ pc'[c] = "aborted"
                  /\ state'[c] = state[c]
                  /\ machine'[c] = machine[c]
                  /\ user'[c] = user[c]
                  /\ sock'[c] = sock[c]
                  /\ input_read'[c] = input_read[c]
         ]_vars

\* C17 witness: a run aborted on a returned state missing from a table
\* that has entries and a terminal state
C17_Witness ==
    \E c \in Conns :
        /\ pc[c] = "aborted"
        /\ state[c] \notin {"None"} \cup DOMAIN machine[c].handlers
        /\ machine[c].end_states # <<>>

\* C18: when a run has ended in 'error_state' the connection's authorized
\* flag is false, handle_connection is past run(), and no step changes the
\* session any more: no handler runs for it.
C18_ErrorTerminal ==
    /\ [](\A c \in Conns :
            state[c] = "error_state"
               => /\ ~user[c].authorized
                  /\ pc[c] = "done"
                  /\ user_pkg[c] = UserAuthPackage)
    /\ [][\A c \in Conns :
            state[c] = "error_state"
               => /\ state'[c] = "error_state"
                  /\ pc'[c] = pc[c]
                  /\ user'[c] = user[c]
                  /\ user_pkg'[c] = user_pkg[c]
                  /\ sock'[c] = sock[c]
                  /\ input_read'[c] = input_read[c]
         ]_vars

\* C18 witness: a run ended in 'error_state' on the empty read at the
\* password prompt
C18_Witness ==
    \E c \in Conns :
        /\ state[c] = "error_state"
        /\ input_read[c] = [by |-> "_state_password_process", data |-> Closed]

\* add_state was called in this step for connection c's machine with a
\* name the handler table already had
ReRegisters(c) ==
    /\ DOMAIN machine'[c].handlers = DOMAIN machine[c].handlers
    /\ \/ machine'[c].handlers # machine[c].handlers
       \/ machine'[c].end_states # machine[c].end_states

\* C19: an add_state call for a name that is already registered changes
\* at most that name's handler binding: end_states and start_state are
\* afterwards what they were before, whatever the end_state flag is.
C19_AddStateTwice ==
    [][\A c \in Conns :
          ReRegisters(c)
             => /\ machine'[c].end_states = machine[c].end_states
                /\ machine'[c].start_state = machine[c].start_state
                /\ Cardinality({n \in DOMAIN machine[c].handlers :
                       machine'[c].handlers[n] # machine[c].handlers[n]}) <= 1
      ]_vars

\* _state_validate of connection c ends in this step without 'validated'
FailedValidation(c) ==
    /\ pc[c] = "auth" /\ state[c] = "password_processed"
    /\ state'[c] \notin {"password_processed", "validated"}

\* C20 as the specification states it: every failed validation, the
\* 'already logged in' one included, returns to the banner while
\* user_login_attempts is at most 4 and is fatal only at 5.
C20_EveryFailureRecoverable ==
    [][\A c \in Conns :
          FailedValidation(c)
             => IF user_pkg[c].user_login_attempts <= MaxRetryAttempts
                THEN state'[c] = "displayed_login_title" /\ pc'[c] = "auth"
                ELSE state'[c] = "error_state" /\ pc'[c] = "done"
      ]_vars

\* C20, amended: a validation that fails in the is_logged_in check is
\* fatal at once, whatever user_login_attempts is (block 000008, error
\* terminal); one that fails after the check, for an unknown account or a
\* password that does not verify, returns to the banner with block 000009
\* while user_login_attempts is at most 4 and is fatal, with block 000010,
\* at 5.
C20_FailureRecoverableUnlessLoggedIn ==
    [][\A c \in Conns :
          FailedValidation(c)
             => IF ~checked[c]
                THEN /\ \E k \in users :
                           user[k].account_name = Tracker(c).account_name
                     /\ state'[c] = "error_state" /\ pc'[c] = "done"
                     /\ sock'[c].out[2] = "000008"
                ELSE /\ \/ \A i \in 1..Len(db) :
                              db[i].account_name # Tracker(c).account_name
                        \/ \E i \in 1..Len(db) :
                              /\ db[i].account_name = Tracker(c).account_name
                              /\ ~checkpw(Tracker(c).password, db[i].password)
                     /\ IF user_pkg[c].user_login_attempts <= MaxRetryAttempts
                        THEN /\ state'[c] = "displayed_login_title"
                             /\ pc'[c] = "auth"
                             /\ sock'[c].out[2] = "000009"
                             /\ user_pkg'[c] = user_pkg[c]
                        ELSE /\ user_pkg[c].user_login_attempts = MaxRetryAttempts + 1
                             /\ state'[c] = "error_state" /\ pc'[c] = "done"
                             /\ sock'[c].out[2] = "000010"
      ]_vars

\* C20 witness: the fifth failure has ended a run with the max-attempts
\* block while another connection is logged in
C20_Witness ==
    \E c \in Conns : \E d \in Conns :
        /\ state[c] = "error_state" /\ pc[c] = "done"
        /\ sock[c].out[2] = "000010"
        /\ user[d].authorized

\* account names the registry is asked about
NamesAsked == {<<>>, <<"c">>, Testuser1, Bobby}

\* a handler of connection c's run returns in this step and the run goes
\* on, or ends in 'authorized'
HandlerStep(c) ==
    /\ pc[c] = "auth" /\ pc'[c] \in {"auth", "loop"}
    /\ (state'[c] # state[c] \/ checked'[c] # checked[c])

C23_RejectedOnlyIfBound ==
    [][\A c \in Conns :
          (/\ pc[c] = "auth" /\ state[c] = "password_processed" /\ ~checked[c]
           /\ state'[c] = "error_state"
           /\ sock'[c].out[2] = "000008")
          => \E k \in users : /\ user[k].authorized
                              /\ user[k].account_name = Tracker(c).account_name
      ]_vars

\* C24: the registry holds only users of connections whose
\* handle_connection is still running; a connection whose handler has
\* returned or has ended with an exception is not registered.
C24_RegistryOnlyRunning ==
    \A c \in Conns : c \in users => pc[c] \in {"auth", "loop"}

\* connection c's _state_login_process reads in this step and the run
\* goes on
ReadsLogin(c) ==
    /\ pc[c] = "auth" /\ state[c] = "prompted_for_login"
    /\ input_read'[c].by = "_state_login_process"
    /\ pc'[c] = "auth"

\* C25: user_login_attempts is 0 when the package is created, goes up by
\* exactly 1 in each _state_login_process that gets an input other than
\* 'c', and is changed by no other handler: not by choosing registration,
\* not by the registration handlers, not by the return to the banner.
C25_AttemptsCountLoginInputs ==
    /\ [](\A c \in Conns : pc[c] = "new" => user_pkg[c].user_login_attempts = 0)
    /\ [][\A c \in Conns :
            /\ (pc[c] = "new" /\ pc'[c] = "auth")
               => user_pkg'[c].user_login_attempts = 0
            /\ (pc[c] = "auth" /\ pc'[c] = "auth")
               => IF ReadsLogin(c) /\ rstrip(input_read'[c].data) # <<"c">>
                  THEN user_pkg'[c].user_login_attempts
                          = user_pkg[c].user_login_attempts + 1
                  ELSE user_pkg'[c].user_login_attempts
                          = user_pkg[c].user_login_attempts
         ]_vars

\* C25 witness: back at the start of the login path after a completed
\* registration, with the two attempts made before it still counted
C25_Witness ==
    \E c \in Conns :
        /\ pc[c] = "auth" /\ state[c] = "auth_initial_state"
        /\ sock[c].out[2] = "000007"
        /\ user_pkg[c].user_login_attempts = 2

\* C26: after _state_login_process takes an input other than 'c' the
\* tracker is a SimpleAuth with that input as account_name and an empty
\* password; after 'c' it is an AccountCreation with its three fields
\* empty. Nothing of the tracker of an earlier attempt is left.
C26_LoginInputReplacesTracker ==
    [][\A c \in Conns :
          ReadsLogin(c) =>
              IF rstrip(input_read'[c].data) = <<"c">>
              THEN Tracker(c)' = [cls |-> "AccountCreation", account_name |-> <<>>,
                                  password |-> <<>>, real_name |-> <<>>]
              ELSE Tracker(c)' = [cls |-> "SimpleAuth",
                                  account_name |-> rstrip(input_read'[c].data),
                                  password |-> <<>>]
      ]_vars

\* C26 witness: a second account name was taken after a failed attempt
\* that had left a name and a password in the tracker
C26_Witness ==
    \E c \in Conns :
        /\ pc[c] = "auth" /\ state[c] = "login_processed"
        /\ user_pkg[c].user_login_attempts = 2
        /\ Tracker(c).password = <<>>

\* C27: every value a handler of the machine of setup() returns is a pair
\* (state, package) whose state is a key of the handler table, so run()
\* never fails on a return value: a run is aborted only by an exception
\* raised inside a handler, which here is the decode() of a read that is
\* not UTF-8.
C27_ReturnsArePairsOfKnownStates ==
    \A c \in Conns :
        pc[c] = "aborted"
            => /\ input_read[c].by # "None"
               /\ ~Decodable(input_read[c].data)

\* C28: run() starts with the handler of the start state, goes on with the
\* handler of each returned state, and returns exactly when the returned
\* state is in end_states; the handler bound to a terminal state reached
\* that way (_state_error, or the None of 'authorized') is never awaited.
C28_RunLoop ==
    /\ [](\A c \in Conns :
            /\ pc[c] = "auth" => /\ state[c] \in DOMAIN machine[c].handlers
                                 /\ ~InEndStates(machine[c], state[c])
            /\ pc[c] \in {"done", "loop"} => InEndStates(machine[c], state[c]))
    /\ [][\A c \in Conns :
            /\ (pc[c] = "new" /\ pc'[c] # "new")
               => /\ pc'[c] = "auth"
                  /\ state'[c] = machine'[c].start_state
                  /\ machine'[c].handlers[state'[c]] = "_state_login_title"
            /\ (pc[c] = "auth" /\ state'[c] # state[c])
               => (InEndStates(machine[c], state'[c]) <=> pc'[c] \in {"done", "loop"})
            /\ ~ _state_error(c)
         ]_vars

\* C28 witness: a run on the machine of setup() has returned in each of
\* the two terminal states
C28_Witness ==
    /\ \E c \in Conns : state[c] = "authorized" /\ pc[c] = "loop"
                        /\ machine[c].handlers["authorized"] = "None"
    /\ \E c \in Conns : state[c] = "error_state" /\ pc[c] = "done"
                        /\ machine[c].handlers["error_state"] = "_state_error"

\* the blocks written for a rejected account name and for a rejected new
\* password or confirmation
AccountNameErrors == {"000011", "000012", "000013", "000017"}
NewPasswordErrors == {"000014", "000015", "000016"}

\* C29: a failed validation below the retry ceiling, a rejected account
\* name, a rejected new password and a confirmation that differs each
\* write their error block in the step that sends the session back, and
\* the prompt that follows is written right after that block: a prompt is
\* preceded either by the block of the ordinary path or by the error.
C29_ErrorBeforeReprompt ==
    /\ [][\A c \in Conns :
            (pc[c] = "auth" /\ pc'[c] = "auth") =>
              /\ (state[c] = "password_processed"
                    /\ state'[c] = "displayed_login_title")
                 => sock'[c].out = <<sock[c].out[2], "000009">>
              /\ (state[c] = "prompted_for_new_account_name"
                    /\ state'[c] = "create_initial_state")
                 => /\ sock'[c].out[1] = sock[c].out[2]
                    /\ sock'[c].out[2] \in AccountNameErrors
              /\ (state[c] \in {"prompted_for_new_password",
                                "prompted_for_reenter_new_password"}
                    /\ state'[c] = "real_name_processed")
                 => /\ sock'[c].out[1] = sock[c].out[2]
                    /\ sock'[c].out[2] \in NewPasswordErrors
              /\ (state[c] = "displayed_login_title" /\ state'[c] # state[c])
                 => sock'[c].out = <<sock[c].out[2], "000001">>
              /\ (state[c] = "create_initial_state" /\ state'[c] # state[c])
                 => sock'[c].out = <<sock[c].out[2], "000003">>
              /\ (state[c] = "real_name_processed" /\ state'[c] # state[c])
                 => sock'[c].out = <<sock[c].out[2], "000005">>
         ]_vars
    /\ [](\A c \in Conns :
            /\ sock[c].out[2] = "000001" => sock[c].out[1] \in {"000000", "000009"}
            /\ sock[c].out[2] = "000003"
                  => sock[c].out[1] \in {"000001"} \cup AccountNameErrors
            /\ sock[c].out[2] = "000005"
                  => sock[c].out[1] \in {"000004"} \cup NewPasswordErrors)

\* C29 witness: the login prompt has been written again, straight after
\* the block of a failed validation
C29_Witness ==
    \E c \in Conns :
        /\ pc[c] = "auth" /\ state[c] = "prompted_for_login"
        /\ sock[c].out = <<"000009", "000001">>

\* C30: when the transport closes at the password prompt, after an account
\* name was read, the run ends in the error terminal and neither the users
\* table nor the UserManager was asked anything for that attempt; the
\* users table is queried by _state_validate and _state_new_account_process
\* alone, and is_logged_in is called by _state_validate alone.
C30_ClosedBeforePasswordAsksNothing ==
    /\ [](\A c \in Conns :
            /\ (pc[c] = "auth" /\ state[c] \in {"login_processed", "prompted_for_password"})
               => lookups[c] = {}
            /\ \A q \in lookups[c] :
                  /\ q[2] = "query_table"
                        => q[1] \in {"_state_validate", "_state_new_account_process"}
                  /\ q[2] = "is_logged_in" => q[1] = "_state_validate")
    /\ [][\A c \in Conns :
            (/\ pc[c] = "auth" /\ state[c] = "prompted_for_password"
             /\ input_read'[c] = [by |-> "_state_password_process", data |-> Closed])
            => /\ state'[c] = "error_state"
               /\ pc'[c] = "done"
               /\ ~user'[c].authorized
               /\ lookups'[c] = {}
               /\ ~checked'[c]
               /\ db' = db
         ]_vars

\* C30 witness: a run has ended on the empty read that followed the
\* login prompt and the password prompt
C30_Witness ==
    \E c \in Conns :
        /\ pc[c] = "done" /\ state[c] = "error_state"
        /\ input_read[c] = [by |-> "_state_password_process", data |-> Closed]
        /\ sock[c].out = <<"000001", "000002">>
        /\ lookups[c] = {}

\* C31: the users table only grows.  A step changes it only when it is a
\* _state_create_new_account step, and then by appending exactly one row
\* behind the rows that were there, which stay as they were; the login
\* path and a registration that fails or is abandoned leave it alone.
C31_StoreOnlyGrows ==
    /\ [][/\ db' # db
             => \E c \in Conns :
                   /\ pc[c] = "auth" /\ state[c] = "reenter_new_password_processed"
                   /\ state'[c] = "new_account_created"
          /\ \A c \in Conns :
                (pc[c] = "auth" /\ state[c] = "reenter_new_password_processed"
                   /\ state'[c] # state[c])
                => /\ Len(db') = Len(db) + 1
                   /\ SubSeq(db', 1, Len(db)) = db
          /\ Len(db') >= Len(db)
          /\ \A i \in 1..Len(db) : db'[i] = db[i]
         ]_vars
    /\ [](\A i \in 1..Len(InitialRows) : db[i] = InitialRows[i])

\* C31 witness: the table is one row longer than at the start, one
\* connection has abandoned its registration at the account-name prompt
\* and another is on the login path
C31_Witness ==
    /\ Len(db) = Len(InitialRows) + 1
    /\ \E c \in Conns : pc[c] = "done" /\ state[c] = "error_state"
                        /\ input_read[c].by = "_state_new_account_process"
    /\ \E c \in Conns : pc[c] = "auth" /\ state[c] = "password_processed"

\* C32: a run whose peer never chooses 'c' and whose reads all return
\* comes to an end in 'authorized' or in 'error_state', and it reads at
\* most five account names (and so at most five passwords) on the way.
C32_LoginRunTerminates ==
    /\ \A c \in Conns :
          (pc[c] = "auth")
             ~> (pc[c] \in {"loop", "done"} /\ state[c] \in {"authorized", "error_state"})
    /\ [](\A c \in Conns : user_pkg[c].user_login_attempts <= MaxRetryAttempts + 1)

\* the states of a run in which the tracker holds an account name that the
\* peer typed
NameTypedStates ==
    {"login_processed", "prompted_for_password", "password_processed",
     "new_account_name_processed", "prompted_for_real_name", "real_name_processed",
     "prompted_for_new_password", "new_password_processed",
     "prompted_for_reenter_new_password", "reenter_new_password_processed",
     "new_account_created"}

\* C33: a connection's user has a non-empty account_name only if its
\* authorized flag is true; while the connection is in the login or
\* registration dialogue the name it typed is in the tracker only, and its
\* registered user does not make is_logged_in report that name.
C33_NameBoundOnlyWhenAuthorized ==
    \A c \in Conns :
        /\ user[c].account_name # <<>> => user[c].authorized
        /\ (pc[c] = "auth" /\ ~user[c].authorized /\ state[c] \in NameTypedStates)
              => ~(c \in users /\ user[c].account_name = Tracker(c).account_name)

\* account names and passwords a login may submit
SubmittedNames == {<<>>, Testuser1, Bobby}
SubmittedPasswords == {<<>>, Blahblahblah, Opensesame}

\* C34: what a failed validation writes and where it goes depend on
\* user_login_attempts alone, not on why it failed: for a name that is not
\* in the table and for a name that is there with a password that does not
\* verify, _state_validate yields the same block and the same next state,
\* and each failing lookup step writes that block and takes that state.
C34_FailureReasonNotRevealed ==
    /\ [](\A n1 \in SubmittedNames, n2 \in SubmittedNames :
            \A password \in SubmittedPasswords :
               (/\ ~valid_account_name(n1)
                /\ valid_account_name(n2) /\ ~valid_password(n2, password))
               => \A attempts \in 0..(MaxRetryAttempts + 1) :
                     ValidateResult(n1, password, attempts)
                        = ValidateResult(n2, password, attempts))
    /\ [][\A c \in Conns :
            (FailedValidation(c) /\ checked[c])
               => /\ state'[c] = IF user_pkg[c].user_login_attempts <= MaxRetryAttempts
                                 THEN "displayed_login_title" ELSE "error_state"
                  /\ sock'[c].out = <<sock[c].out[2],
                                      IF user_pkg[c].user_login_attempts <= MaxRetryAttempts
                                      THEN "000009" ELSE "000010">>
         ]_vars

\* C34 witness: two connections have just failed their first validation,
\* one with a name that is not in the table, the other with a registered
\* name and a wrong password, and are in the same state with the same block
C34_Witness ==
    \E c \in Conns : \E k \in Conns :
        /\ pc[c] = "auth" /\ pc[k] = "auth"
        /\ state[c] = "displayed_login_title" /\ state[k] = "displayed_login_title"
        /\ sock[c].out[2] = "000009" /\ sock[k].out[2] = "000009"
        /\ user_pkg[c].user_login_attempts = 1 /\ user_pkg[k].user_login_attempts = 1
        /\ ~valid_account_name(Tracker(c).account_name)
        /\ valid_account_name(Tracker(k).account_name)
        /\ ~valid_password(Tracker(k).account_name, Tracker(k).password)

\* the stripped account name has 4 to 20 characters, no digit in front and
\* no whitespace
GoodAccountNameForm(n) ==
    /\ Len(n) >= MinAccountNameLen /\ Len(n) <= MaxAccountNameLen
    /\ n[1] \notin Digits
    /\ \A i \in 1..Len(n) : n[i] \notin Whitespace

\* the states of a registration in which the tracker holds an accepted
\* account name, and those in which it holds an accepted password as well
NameAcceptedStates ==
    {"new_account_name_processed", "prompted_for_real_name", "real_name_processed",
     "prompted_for_new_password", "new_password_processed",
     "prompted_for_reenter_new_password", "reenter_new_password_processed"}
PasswordAcceptedStates ==
    {"new_password_processed", "prompted_for_reenter_new_password",
     "reenter_new_password_processed"}

\* C35: every row _state_create_new_account inserts has an account name
\* that passed the length, leading-digit and whitespace rules and was not
\* in the table when it was read, and the hash of a password that passed
\* the length and whitespace rules: the tracker takes a name or a password
\* only in the step that accepts it, and rejected inputs leave no trace.
C35_InsertedRowsWereValidated ==
    /\ [](/\ \A i \in (Len(InitialRows) + 1)..Len(db) :
                /\ GoodAccountNameForm(db[i].account_name)
                /\ GoodPassword(db[i].password.digest[2])
          /\ \A c \in Conns :
                /\ (pc[c] = "auth" /\ state[c] \in NameAcceptedStates)
                      => GoodAccountNameForm(Tracker(c).account_name)
                /\ (pc[c] = "auth" /\ state[c] \in PasswordAcceptedStates)
                      => GoodPassword(Tracker(c).password))
    /\ [][\A c \in Conns :
            /\ (pc[c] = "auth" /\ state'[c] = "new_account_name_processed"
                  /\ state[c] # state'[c])
               => /\ ReadsAccountName(c)
                  /\ ~BadAccountName(rstrip(input_read'[c].data))
                  /\ Tracker(c)'.account_name = rstrip(input_read'[c].data)
            /\ (pc[c] = "auth" /\ state[c] \in NameAcceptedStates /\ pc'[c] = "auth"
                  /\ state'[c] \in NameAcceptedStates)
               => Tracker(c)'.account_name = Tracker(c).account_name
            /\ (pc[c] = "auth" /\ state'[c] = "new_password_processed"
                  /\ state[c] # state'[c])
               => /\ ReadsNewPassword(c)
                  /\ GoodPassword(rstrip(input_read'[c].data))
                  /\ Tracker(c)'.password = rstrip(input_read'[c].data)
            /\ (pc[c] = "auth" /\ state'[c] = "new_account_created"
                  /\ state[c] # state'[c])
               => /\ db'[Len(db')].account_name = Tracker(c).account_name
                  /\ db'[Len(db')].password.digest[2] = Tracker(c).password
         ]_vars

\* C35 witness: a row has just been inserted for an account name of the
\* shortest length allowed and a password of the shortest length allowed
C35_Witness ==
    \E c \in Conns :
        /\ pc[c] = "auth" /\ state[c] = "new_account_created"
        /\ Len(db) = Len(InitialRows) + 1
        /\ db[Len(db)].account_name = <<"a", "b", "c", "d">>
        /\ db[Len(db)].password.digest[2] = Opensesame

\* C36: when the peer of an authorized connection closes the transport,
\* handle_connection closes the socket and unregisters the user, and from
\* then on that user does not count for is_logged_in; a connection that
\* validates the account afterwards, with no registered user carrying the
\* name, passes the check, and with the password that verifies it is
\* validated and authorized rather than sent block 000008.
C36_LoginAfterLogout ==
    /\ [](\A k \in Conns :
            pc[k] = "done" => (k \notin users /\ sock[k].closed))
    /\ [][\A c \in Conns : \A k \in Conns \ {c} :
            /\ (pc[k] = "loop" /\ pc'[k] = "done")
               => /\ k \notin users'
                  /\ (\A j \in users' : user[j].account_name # user[k].account_name)
                        => ~is_logged_in(user[k].account_name)'
            /\ (/\ pc[k] = "done" /\ user[k].authorized
                /\ pc[c] = "auth" /\ state[c] = "password_processed"
                /\ Tracker(c).account_name = user[k].account_name
                /\ (state'[c] # state[c] \/ checked'[c] # checked[c]))
               => IF ~checked[c]
                  THEN checked'[c] /\ state'[c] = state[c] /\ sock'[c] = sock[c]
                  ELSE valid_password(Tracker(c).account_name, Tracker(c).password)
                          => /\ state'[c] = "validated"
                             /\ user'[c].authorized
                             /\ user'[c].account_name = user[k].account_name
         ]_vars

\* C36 witness: a connection is authorized and in its input loop under the
\* account of a connection that was authorized and has closed
C36_Witness ==
    \E c \in Conns : \E k \in Conns \ {c} :
        /\ pc[k] = "done" /\ user[k].authorized /\ k \notin users
        /\ pc[c] = "loop" /\ user[c].authorized
        /\ user[c].account_name = user[k].account_name


\* C37: a gossip message is written only to the sockets of authorized
\* users: a step of _gossip that writes the gossip block to a socket writes
\* it to the socket of a user whose authorized flag is set.
C37_GossipOnlyToAuthorized ==
    [][\A k \in Conns :
          (/\ proc["chat_processor"].pc \in {"handle", "gossip"}
           /\ proc'["chat_processor"] # proc["chat_processor"]
           /\ sock'[k] # sock[k]
           /\ sock'[k].out[2] = "gossip")
          => user[k].authorized]_vars

\* C38: when a processor waits for its next item or has returned, every
\* item it took has been marked done exactly once: the unfinished count of
\* its queue is the number of items still in the queue.
C38_TaskDoneOncePerItem ==
    \A p \in Processors :
        proc[p].pc \in {"get", "returned"} => proc[p].unfinished = Len(proc[p].queue)

\* C39: once shutdown() has been called on a processor whose run() waits on
\* an empty queue, run() eventually returns, unless an item is put.
C39_ShutdownEndsRun ==
    \A p \in Processors :
        (proc[p].shutdown /\ proc[p].pc = "get" /\ proc[p].queue = <<>>)
            ~> (proc[p].pc = "returned" \/ proc[p].queue # <<>>)

============================================================================
